---- MODULE Spec2Model ----
(***************************************************************************)
(* Model of express-service-bootstrap.                                     *)
(*                                                                         *)
(* DisposableSingletonContainer (disposable-singleton-container.ts) with   *)
(* BootstrapConstructor (bootstrap-constructor.ts): a name -> instance     *)
(* map, a dispose-sequence -> Set<name> map and a running dispose-sequence *)
(* counter.  Async methods are split at their await points; a call that    *)
(* is suspended at an await is a frame in `calls`.                         *)
(*                                                                         *)
(* SortedMap (the ordered registry of handlers): set, sort and clear on a  *)
(* registry and on the registry nested in it for the global handlers.      *)
(*                                                                         *)
(* ApplicationBuilder (application-builder.ts): start(), the once-listeners*)
(* of the exit signals bound to disposeAll, and [Symbol.asyncDispose].     *)
(*                                                                         *)
(* ApplicationBuilder with a life cycle: the status of                     *)
(* enum-application-life-cycle-status.ts moved by start() with a startup   *)
(* handler and by the shutdown with a shutdown handler, and checkHealth.   *)
(*                                                                         *)
(* BootstrapConstructor as functions of the callable and its arguments.    *)
(*                                                                         *)
(* CompressionUtil.compressiblePost (compression-util.ts) and              *)
(* Convenience.compressibleRequestGZIP (convenience.ts): the request each  *)
(* hands to fetch and what it leaves in the headers object it was given.   *)
(***************************************************************************)
EXTENDS Integers, Sequences, FiniteSets, TLC

\* ------------------------------------------------------------------------
\* Bounds of the model
\* ------------------------------------------------------------------------
MaxOps == 4

MaxRegs == 3

MaxCalls == 2

\* calls on the SortedMaps
MaxMapOps == 3

\* calls on a BootstrapConstructor
MaxBuilds == 2

\* requests made through CompressionUtil and Convenience
MaxRequests == 3

\* ------------------------------------------------------------------------
\* Inputs
\* ------------------------------------------------------------------------
\* instance names used by the callers
Names == {"a", "b"}

\* the optional disposeSequence argument: <<>> is undefined, <<n>> is n
SeqArgs == {<<>>, <<0>>, <<1>>, <<3>>}

\* kinds of objects a constructor / factory hands to the container:
\*   Disposable exposes [Symbol.dispose] and [Symbol.asyncDispose]; an
\*              invocation of either returns, or throws / rejects
\*   Plain      exposes neither
Classes == {"Disposable", "Plain"}

\* an express application that listens: the builder gives it
\* [Symbol.asyncDispose], which closes its http server
Listener == "Listener"

\* a registered value that is null or undefined (what a no-op factory returns)
Nullish == "Nullish"

\* JS undefined, as a value of the instance type
Undefined == [id |-> 0, cls |-> "undefined"]

\* a deleted entry of a Set's entry list (a Set iterator steps over it)
Tomb == "<deleted>"

VARIABLES
    singletonContainer,   \* Map<string, unknown>
    disposeSequenceMap,   \* Map<number, Set<string>>, a Set is its entry list
    disposeSequence,      \* the running default dispose sequence
    calls,                \* the async calls suspended at an await
    ret,                  \* what the call that returned last returned
    log,                  \* release-hook invocations and completions
    regs,                 \* per instance id: how it was registered
    nextId,               \* number of objects constructed so far
    ops,                  \* number of calls issued by the callers
    overlap,              \* TRUE iff callers issue calls without awaiting
    registry,             \* a SortedMap: the handlers of an application
    bucket,               \* the SortedMap nested in registry under "*"
    mapRet,               \* what the SortedMap call that returned last did
    setLog,               \* the set calls on registry since its last clear
    listeners,            \* currentProcess: once-listeners per exit signal
    emitted,              \* the exit signals delivered to the process
    disposeCalled,        \* TRUE iff the builder's asyncDispose was called
    lifecycle,            \* the status of the builder's lifecycle state
    healthHandlers,       \* a SortedMap: the handlers of the health application
    lcRet,                \* what start / dispose / checkHealth answered last
    shutdownCalls,        \* number of invocations of the shutdown handler
    built,                \* the calls made on a BootstrapConstructor
    callerHeaders,        \* the headers object a caller passes again and again
    httpRet               \* what the request helper that returned last did

\* the variables of the ordered registries, and of the application builder
mapVars == <<registry, bucket, mapRet, setLog>>

\* the variables of the builder's lifecycle
\* the variables of the request helpers
httpVars == <<callerHeaders, httpRet>>

lcVars == <<lifecycle, healthHandlers, lcRet, shutdownCalls, built, httpVars>>

appVars == <<listeners, emitted, disposeCalled, lcVars>>

vars == <<singletonContainer, disposeSequenceMap, disposeSequence, calls,
          ret, log, regs, nextId, ops, overlap, mapVars, appVars>>

\* ------------------------------------------------------------------------
\* Map and Set primitives
\* ------------------------------------------------------------------------
Has(m, k) == k \in DOMAIN m

Get(m, k) == IF k \in DOMAIN m THEN m[k] ELSE Undefined

MapSet(m, k, v) == [x \in (DOMAIN m) \cup {k} |-> IF x = k THEN v ELSE m[x]]

MapDelete(m, k) == [x \in (DOMAIN m) \ {k} |-> m[x]]

SetHas(items, name) == \E i \in 1..Len(items) : items[i] = name

SetAdd(items, name) == IF SetHas(items, name) THEN items ELSE Append(items, name)

SetDelete(items, name) ==
    [i \in 1..Len(items) |-> IF items[i] = name THEN Tomb ELSE items[i]]

SetSize(items) == Cardinality({i \in 1..Len(items) : items[i] # Tomb})

\* ------------------------------------------------------------------------
\* The release hooks an instance exposes
\* ------------------------------------------------------------------------
HasSyncHook(inst) == inst.cls = "Disposable"

HasAsyncHook(inst) == inst.cls \in {"Disposable", Listener}

\* can an invocation of a hook of this instance throw / reject
MayFail(inst) == IF inst.cls \in {"Disposable", Listener} THEN {FALSE, TRUE} ELSE {FALSE}

\* ------------------------------------------------------------------------
\* The container as a value, and the pure part of its methods
\* ------------------------------------------------------------------------
Cont == [sc |-> singletonContainer, dsm |-> disposeSequenceMap, ds |-> disposeSequence]

Store(c) ==
    /\ singletonContainer' = c.sc
    /\ disposeSequenceMap' = c.dsm
    /\ disposeSequence' = c.ds

\* disposeSequence = disposeSequence || this.disposeSequence
EffectiveSequence(seqArg, counter) ==
    IF seqArg = <<>> \/ seqArg[1] = 0 THEN counter ELSE seqArg[1]

\* a release hook is invoked or settles in event e
HookEvent(e) == e.k \in {"dispose", "asyncDispose", "asyncDisposeEnd"}

\* registerInstance that takes overrideExistingInstance for true
registerInstance_IgnoresOverrideFlag(c, name, instance, seqArg, overrideExistingInstance) ==
    LET counter == c.ds + 1
        sequence == EffectiveSequence(seqArg, counter)
        existingMembers == IF Has(c.dsm, sequence) THEN c.dsm[sequence] ELSE <<>>
    IN [ok |-> TRUE,
        c  |-> [sc  |-> MapSet(c.sc, name, instance),
                dsm |-> MapSet(c.dsm, sequence, SetAdd(existingMembers, name)),
                ds  |-> counter]]

\* registerInstance: [ok |-> the boolean returned, c |-> the container after]
registerInstance(c, name, instance, seqArg, overrideExistingInstance) ==
    IF overrideExistingInstance = FALSE /\ Has(c.sc, name)
    THEN [ok |-> FALSE, c |-> c]
    ELSE LET counter == c.ds + 1
             sequence == EffectiveSequence(seqArg, counter)
             existingMembers == IF Has(c.dsm, sequence) THEN c.dsm[sequence] ELSE <<>>
         IN [ok |-> TRUE,
             c  |-> [sc  |-> MapSet(c.sc, name, instance),
                     dsm |-> MapSet(c.dsm, sequence, SetAdd(existingMembers, name)),
                     ds  |-> counter]]

\* disposeInstance that leaves a Set that became empty in the map
removeInstance_KeepsEmptySet(c, name) ==
    [sc  |-> MapDelete(c.sc, name),
     dsm |-> [s \in DOMAIN c.dsm |-> SetDelete(c.dsm[s], name)],
     ds  |-> c.ds]

\* disposeInstance that forgets singletonContainer.delete(name)
removeInstance_KeepsInstance(c, name) ==
    LET touched == [s \in DOMAIN c.dsm |-> SetDelete(c.dsm[s], name)]
        keep == {s \in DOMAIN c.dsm :
                    ~(SetHas(c.dsm[s], name) /\ SetSize(touched[s]) = 0)}
    IN [sc  |-> c.sc,
        dsm |-> [s \in keep |-> touched[s]],
        ds  |-> c.ds]

\* the tail of disposeInstance: delete the name, and drop it from every Set
\* that has it, deleting a Set that becomes empty
removeInstance(c, name) ==
    LET touched == [s \in DOMAIN c.dsm |-> SetDelete(c.dsm[s], name)]
        keep == {s \in DOMAIN c.dsm :
                    ~(SetHas(c.dsm[s], name) /\ SetSize(touched[s]) = 0)}
    IN [sc  |-> MapDelete(c.sc, name),
        dsm |-> [s \in keep |-> touched[s]],
        ds  |-> c.ds]

\* an event of the log: a release hook of inst invoked ("dispose",
\* "asyncDispose": ok is FALSE iff the invocation throws), the promise of the
\* asynchronous one settled ("asyncDisposeEnd": ok is FALSE iff it rejected),
\* or inst deleted from the container by disposeInstance ("removed")
Ev(kind, inst, name, ok) == [k |-> kind, inst |-> inst, name |-> name, ok |-> ok]

\* disposeInstance that invokes [Symbol.asyncDispose] before [Symbol.dispose]
disposeInstanceBegin_AsyncFirst(c, name, syncThrows) ==
    IF ~Has(c.sc, name)
    THEN [status |-> "absent", c |-> c, events |-> <<>>, inst |-> Undefined]
    ELSE LET inst == c.sc[name]
             e1 == IF HasSyncHook(inst)
                   THEN <<Ev("dispose", inst, name, ~syncThrows)>> ELSE <<>>
         IN IF HasAsyncHook(inst)
            THEN [status |-> IF HasSyncHook(inst) /\ syncThrows THEN "threw" ELSE "await",
                  c |-> c,
                  events |-> <<Ev("asyncDispose", inst, name, TRUE)>> \o e1,
                  inst |-> inst]
            ELSE IF HasSyncHook(inst) /\ syncThrows
            THEN [status |-> "threw", c |-> c, events |-> e1, inst |-> inst]
            ELSE [status |-> "done", c |-> removeInstance(c, name),
                  events |-> e1 \o <<Ev("removed", inst, name, TRUE)>>, inst |-> inst]

\* disposeInstance that deletes the name before it invokes the hooks
disposeInstanceBegin_DeletesFirst(c, name, syncThrows) ==
    IF ~Has(c.sc, name)
    THEN [status |-> "absent", c |-> c, events |-> <<>>, inst |-> Undefined]
    ELSE LET inst == c.sc[name]
             e1 == IF HasSyncHook(inst)
                   THEN <<Ev("dispose", inst, name, ~syncThrows)>> ELSE <<>>
         IN IF HasSyncHook(inst) /\ syncThrows
            THEN [status |-> "threw", c |-> removeInstance(c, name), events |-> e1,
                  inst |-> inst]
            ELSE IF HasAsyncHook(inst)
            THEN [status |-> "await", c |-> removeInstance(c, name),
                  events |-> e1 \o <<Ev("asyncDispose", inst, name, TRUE)>>,
                  inst |-> inst]
            ELSE [status |-> "done", c |-> removeInstance(c, name),
                  events |-> e1 \o <<Ev("removed", inst, name, TRUE)>>, inst |-> inst]

\* disposeInstance that catches what [Symbol.dispose] throws and goes on
disposeInstanceBegin_SwallowsThrow(c, name, syncThrows) ==
    IF ~Has(c.sc, name)
    THEN [status |-> "absent", c |-> c, events |-> <<>>, inst |-> Undefined]
    ELSE LET inst == c.sc[name]
             e1 == IF HasSyncHook(inst)
                   THEN <<Ev("dispose", inst, name, ~syncThrows)>> ELSE <<>>
         IN IF HasAsyncHook(inst)
            THEN [status |-> "await", c |-> c,
                  events |-> e1 \o <<Ev("asyncDispose", inst, name, TRUE)>>,
                  inst |-> inst]
            ELSE [status |-> "done", c |-> removeInstance(c, name),
                  events |-> e1 \o <<Ev("removed", inst, name, TRUE)>>, inst |-> inst]

\* disposeInstance without the has(name) guard: reading a hook of undefined
\* throws
disposeInstanceBegin_NoHasGuard(c, name, syncThrows) ==
    IF ~Has(c.sc, name)
    THEN [status |-> "threw", c |-> c, events |-> <<>>, inst |-> Undefined]
    ELSE LET inst == c.sc[name]
             e1 == IF HasSyncHook(inst)
                   THEN <<Ev("dispose", inst, name, ~syncThrows)>> ELSE <<>>
         IN IF HasSyncHook(inst) /\ syncThrows
            THEN [status |-> "threw", c |-> c, events |-> e1, inst |-> inst]
            ELSE IF HasAsyncHook(inst)
            THEN [status |-> "await", c |-> c,
                  events |-> e1 \o <<Ev("asyncDispose", inst, name, TRUE)>>,
                  inst |-> inst]
            ELSE [status |-> "done", c |-> removeInstance(c, name),
                  events |-> e1 \o <<Ev("removed", inst, name, TRUE)>>, inst |-> inst]

\* disposeInstance up to its await: the status it reaches, the container
\* after, and the hook events
disposeInstanceBegin(c, name, syncThrows) ==
    IF ~Has(c.sc, name)
    THEN [status |-> "absent", c |-> c, events |-> <<>>, inst |-> Undefined]
    ELSE LET inst == c.sc[name]
             e1 == IF HasSyncHook(inst)
                   THEN <<Ev("dispose", inst, name, ~syncThrows)>> ELSE <<>>
         IN IF inst.cls = Nullish
            \* reading [Symbol.dispose] of null or undefined is a TypeError
            THEN [status |-> "threw", c |-> c, events |-> <<>>, inst |-> inst]
            ELSE IF HasSyncHook(inst) /\ syncThrows
            THEN [status |-> "threw", c |-> c, events |-> e1, inst |-> inst]
            ELSE IF HasAsyncHook(inst)
            THEN [status |-> "await", c |-> c,
                  events |-> e1 \o <<Ev("asyncDispose", inst, name, TRUE)>>,
                  inst |-> inst]
            ELSE [status |-> "done", c |-> removeInstance(c, name),
                  events |-> e1 \o <<Ev("removed", inst, name, TRUE)>>, inst |-> inst]

\* Array.from(keys()).sort((a, b) => b - a)
RECURSIVE SortDescending(_)
SortDescending(S) ==
    IF S = {} THEN <<>>
    ELSE LET m == CHOOSE x \in S : \A y \in S : y <= x
         IN <<m>> \o SortDescending(S \ {m})

sortedDisposeSequence(dsm) == SortDescending(DOMAIN dsm)

\* a Set iteration that steps over the entry after a deleted one
RECURSIVE NextMember_SkipsNeighbour(_, _, _)
NextMember_SkipsNeighbour(sorted, idx, dsm) ==
    IF sorted = <<>>
    THEN [found |-> FALSE, name |-> "", sorted |-> <<>>, idx |-> 0]
    ELSE LET items == IF Has(dsm, Head(sorted)) THEN dsm[Head(sorted)] ELSE <<>>
             from == IF idx > 0 /\ idx <= Len(items) /\ items[idx] = Tomb
                     THEN idx + 2 ELSE idx + 1
             later == {p \in from..Len(items) : items[p] # Tomb}
         IN IF later # {}
            THEN LET p == CHOOSE q \in later : \A r \in later : q <= r
                 IN [found |-> TRUE, name |-> items[p], sorted |-> sorted, idx |-> p]
            ELSE NextMember_SkipsNeighbour(Tail(sorted), 0, dsm)

\* the nested for..of loops of disposeAll: the next instance name, from
\* position idx of the Set of the first sequence of sorted
RECURSIVE NextMember(_, _, _)
NextMember(sorted, idx, dsm) ==
    IF sorted = <<>>
    THEN [found |-> FALSE, name |-> "", sorted |-> <<>>, idx |-> 0]
    ELSE LET items == IF Has(dsm, Head(sorted)) THEN dsm[Head(sorted)] ELSE <<>>
             later == {p \in (idx + 1)..Len(items) : items[p] # Tomb}
         IN IF later # {}
            THEN LET p == CHOOSE q \in later : \A r \in later : q <= r
                 IN [found |-> TRUE, name |-> items[p], sorted |-> sorted, idx |-> p]
            ELSE NextMember(Tail(sorted), 0, dsm)

\* ------------------------------------------------------------------------
\* CompressionUtil.compressiblePost and Convenience.compressibleRequestGZIP
\* ------------------------------------------------------------------------
\* a string is the list of its runs: n times the code point c
Repeat(c, n) == IF n = 0 THEN <<>> ELSE <<[c |-> c, n |-> n]>>

\* the string of the code points cs
Chars(cs) == [i \in 1..Len(cs) |-> [c |-> cs[i], n |-> 1]]

\* a payload: "object" is the object { data: <string> }, "number" the
\* number 0, "circular" an object that refers to itself, "undefined" undefined
Payload(t, data) == [t |-> t, data |-> data]

\* { data: "x".repeat(n) } serialises to 11, 12, 1024 and 1025 bytes for the
\* lengths below (120 is "x"); 233 is "é", two bytes in UTF-8
Payloads ==
    {Payload("object", Repeat(120, n)) : n \in {0, 1, 1013, 1014}}
        \cup {Payload("object", Repeat(233, 1)), Payload("number", <<>>),
              Payload("circular", <<>>), Payload("undefined", <<>>)}

\* the default of the parameter payloadLimit
DefaultPayloadLimit == 1024

\* JSON.stringify: the text, undefined for undefined, or a TypeError for a
\* circular structure (none of the strings used needs an escape)
JSON_stringify(body) ==
    IF body.t = "circular" THEN [threw |-> TRUE, undefined |-> FALSE, text |-> <<>>]
    ELSE IF body.t = "undefined" THEN [threw |-> FALSE, undefined |-> TRUE, text |-> <<>>]
    ELSE IF body.t = "number" THEN [threw |-> FALSE, undefined |-> FALSE, text |-> Chars(<<48>>)]
    ELSE [threw |-> FALSE, undefined |-> FALSE,
          text |-> Chars(<<123, 34, 100, 97, 116, 97, 34, 58, 34>>) \o body.data
                       \o Chars(<<34, 125>>)]

\* Buffer.byteLength(text, "utf8")
RECURSIVE Buffer_byteLength(_)
Buffer_byteLength(text) ==
    IF text = <<>> THEN 0
    ELSE LET c == Head(text).c
             bytes == IF c < 128 THEN 1 ELSE IF c < 2048 THEN 2
                      ELSE IF c < 65536 THEN 3 ELSE 4
         IN Head(text).n * bytes + Buffer_byteLength(Tail(text))

\* what fetch is given as a body
StringBody(text) == [t |-> "string", of |-> text]

\* zlib.gzipSync(text): a Buffer
gzipSync(text) == [t |-> "Buffer", of |-> text]

\* a ReadableStream of a text, no stream, and the stream piped through
\* new CompressionStream("gzip")
ReadableStream(text) == [t |-> "ReadableStream", of |-> text]

UndefinedStream == [t |-> "undefined", of |-> <<>>]

pipeThrough(bodyStream, format) == [t |-> format, of |-> bodyStream.of]

TheUrl == "https://api.example.com/test"

\* a headers object as the caller builds it
NewHeaders == [h \in {"Content-Type"} |-> "application/json"]

\* what fetch does with a request: it resolves with a response or rejects
NoResponse == [status |-> 0]

FetchResults == {[rejects |-> FALSE, response |-> [status |-> 200], error |-> ""],
                 [rejects |-> FALSE, response |-> [status |-> 500], error |-> ""],
                 [rejects |-> TRUE, response |-> NoResponse, error |-> "Network error"]}

\* the helper threw before it called fetch
Rejected(error, headers) ==
    [threw |-> TRUE, error |-> error, response |-> NoResponse, headers |-> headers,
     requests |-> <<>>]

\* fetch(url, options) and what the helper returns from it
Fetch(url, options, fetchResult) ==
    [threw |-> fetchResult.rejects, error |-> fetchResult.error,
     response |-> fetchResult.response, headers |-> options.headers,
     requests |-> <<[url |-> url, method |-> options.method, headers |-> options.headers,
                     body |-> options.body, duplex |-> options.duplex]>>]

\* compressiblePost that calls fetch before it has a body
compressiblePost_FetchesFirst(headers, body, url, payloadLimitArg, gzipThrows, fetchResult) ==
    LET payloadString == JSON_stringify(body)
        sent == Fetch(url, [method |-> "POST", headers |-> headers,
                            body |-> StringBody(payloadString.text), duplex |-> ""],
                      fetchResult)
    IN IF payloadString.threw \/ payloadString.undefined
       THEN [sent EXCEPT !.threw = TRUE, !.error = "TypeError"]
       ELSE sent

\* compressiblePost: what it leaves in headers, the requests it made, and
\* the response it returns or the error it rejects with
compressiblePost(headers, body, url, payloadLimitArg, gzipThrows, fetchResult) ==
    LET payloadLimit == IF payloadLimitArg = <<>> THEN DefaultPayloadLimit
                        ELSE payloadLimitArg[1]
        payloadString == JSON_stringify(body)
    IN IF payloadString.threw THEN Rejected("TypeError", headers)
       \* Buffer.byteLength(undefined) is a TypeError
       ELSE IF payloadString.undefined THEN Rejected("TypeError", headers)
       ELSE IF Buffer_byteLength(payloadString.text) > payloadLimit
       THEN IF gzipThrows THEN Rejected("Compression failed", headers)
            ELSE Fetch(url, [method |-> "POST",
                             headers |-> MapSet(headers, "Content-Encoding", "gzip"),
                             body |-> gzipSync(payloadString.text), duplex |-> ""],
                       fetchResult)
       ELSE Fetch(url, [method |-> "POST", headers |-> headers,
                        body |-> StringBody(payloadString.text), duplex |-> ""],
                  fetchResult)

\* compressibleRequestGZIP that compresses whenever it has a body
compressibleRequestGZIP_IgnoresFlag(httpVerb, url, headers, bodyStream, shouldCompressArg, fetchResult) ==
    IF bodyStream # UndefinedStream
    THEN Fetch(url, [method |-> httpVerb,
                     headers |-> MapSet(headers, "content-encoding", "gzip"),
                     body |-> pipeThrough(bodyStream, "gzip"), duplex |-> "half"],
               fetchResult)
    ELSE Fetch(url, [method |-> httpVerb, headers |-> headers, body |-> bodyStream,
                     duplex |-> "half"],
               fetchResult)

\* compressibleRequestGZIP, with context.fetch and context.CompressionStream
compressibleRequestGZIP(httpVerb, url, headers, bodyStream, shouldCompressArg, fetchResult) ==
    LET shouldCompress == IF shouldCompressArg = <<>> THEN bodyStream # UndefinedStream
                          ELSE shouldCompressArg[1]
    IN IF shouldCompress = TRUE /\ bodyStream # UndefinedStream
       THEN Fetch(url, [method |-> httpVerb,
                        headers |-> MapSet(headers, "content-encoding", "gzip"),
                        body |-> pipeThrough(bodyStream, "gzip"), duplex |-> "half"],
                  fetchResult)
       ELSE Fetch(url, [method |-> httpVerb, headers |-> headers, body |-> bodyStream,
                        duplex |-> "half"],
                  fetchResult)

\* what a helper call did: its arguments (reused: it was given the caller's
\* long-lived headers object, before: that object's content at the call),
\* and out: the outcome; n counts the calls
HttpRet(op, n, reused, before, method, body, limit, compress, gzipThrows, fetchResult, out) ==
    [op |-> op, n |-> n, reused |-> reused, before |-> before, method |-> method,
     body |-> body, limit |-> limit, compress |-> compress, gzipThrows |-> gzipThrows,
     fetchResult |-> fetchResult, out |-> out]

NoRequest ==
    HttpRet("none", 0, FALSE, NewHeaders, "", Payload("undefined", <<>>), <<>>, <<>>, FALSE,
            [rejects |-> FALSE, response |-> NoResponse, error |-> ""],
            Rejected("", NewHeaders))

\* ------------------------------------------------------------------------
\* SortedMap (the ordered registry of handlers)
\* ------------------------------------------------------------------------
\* hosting paths used as keys, and "*" for the global handlers
Keys == {"/a", "/b"}

GlobalKey == "*"

\* JS undefined, as a value of a Map
UndefinedValue == "undefined"

\* the value stored under "*": a reference to the nested SortedMap
BucketRef == "<SortedMap>"

Handlers == {"H1", "H2"}

Values == Handlers \cup {UndefinedValue}

\* a JS number | undefined, as far as set() tells numbers apart
Num(n) == [t |-> "int", v |-> n]

OrderUndefined == [t |-> "undefined", v |-> 0]

NaN == [t |-> "NaN", v |-> 0]

Infinity == [t |-> "Infinity", v |-> 0]

\* a finite number that is no integer, 1.5
Fraction == [t |-> "fraction", v |-> 1]

InvalidOrders == {NaN, Infinity, Fraction}

OrderArgs == {OrderUndefined, Num(0), Num(1), Num(2)} \cup InvalidOrders

NumberIsNaN(order) == order.t = "NaN"

NumberIsSafeInteger(order) == order.t = "int"

MathMax(a, b) == IF a >= b THEN a ELSE b

\* a JS Map as the list of its entries, in insertion order
MapHas(m, k) == \E i \in 1..Len(m) : m[i].key = k

MapGet(m, k) ==
    IF MapHas(m, k) THEN m[CHOOSE i \in 1..Len(m) : m[i].key = k].val
    ELSE UndefinedValue

\* Map.set: a new key goes to the end, an old key keeps its place
MapPut(m, k, v) ==
    IF MapHas(m, k)
    THEN [i \in 1..Len(m) |-> IF m[i].key = k THEN [key |-> k, val |-> v] ELSE m[i]]
    ELSE Append(m, [key |-> k, val |-> v])

MapKeys(m) == [i \in 1..Len(m) |-> m[i].key]

\* new SortedMap()
NewSortedMap == [map |-> <<>>, sortedKeys |-> <<>>, maxOrder |-> 0]

\* set that stores an order before it has validated it
set_NoValidation(r, key, value, order) ==
    IF order # OrderUndefined
    THEN [threw |-> NumberIsNaN(order) \/ ~NumberIsSafeInteger(order),
          r |-> [map |-> MapPut(r.map, key, value),
                 sortedKeys |-> MapPut(r.sortedKeys, key, order.v),
                 maxOrder |-> MathMax(r.maxOrder, order.v)]]
    ELSE [threw |-> FALSE,
          r |-> [map |-> MapPut(r.map, key, value),
                 sortedKeys |-> MapPut(r.sortedKeys, key, r.maxOrder + 1),
                 maxOrder |-> r.maxOrder + 1]]

\* set that takes every explicit order for the new maxOrder
set_MarkFollowsOrder(r, key, value, order) ==
    IF NumberIsNaN(order) \/ ~NumberIsSafeInteger(order)
    THEN [threw |-> TRUE, r |-> r]
    ELSE IF order # OrderUndefined
    THEN [threw |-> FALSE,
          r |-> [map |-> MapPut(r.map, key, value),
                 sortedKeys |-> MapPut(r.sortedKeys, key, order.v),
                 maxOrder |-> order.v]]
    ELSE [threw |-> FALSE,
          r |-> [map |-> MapPut(r.map, key, value),
                 sortedKeys |-> MapPut(r.sortedKeys, key, r.maxOrder + 1),
                 maxOrder |-> r.maxOrder + 1]]

\* SortedMap.set: [threw |-> it threw, r |-> the SortedMap after]
set(r, key, value, order) ==
    IF NumberIsNaN(order) \/ ~NumberIsSafeInteger(order)
    THEN [threw |-> TRUE, r |-> r]
    ELSE IF order # OrderUndefined
    THEN [threw |-> FALSE,
          r |-> [map |-> MapPut(r.map, key, value),
                 sortedKeys |-> MapPut(r.sortedKeys, key, order.v),
                 maxOrder |-> MathMax(r.maxOrder, order.v)]]
    ELSE [threw |-> FALSE,
          r |-> [map |-> MapPut(r.map, key, value),
                 sortedKeys |-> MapPut(r.sortedKeys, key, r.maxOrder + 1),
                 maxOrder |-> r.maxOrder + 1]]

\* the entries without the one at position p
WithoutEntry(entries, p) ==
    [i \in 1..(Len(entries) - 1) |-> IF i < p THEN entries[i] ELSE entries[i + 1]]

\* a sort by (a, b) => a[1] - b[1] that puts the later of two equal orders first
RECURSIVE ArraySort_Unstable(_)
ArraySort_Unstable(entries) ==
    IF entries = <<>> THEN <<>>
    ELSE LET p == CHOOSE i \in 1..Len(entries) :
                    \A j \in 1..Len(entries) :
                        \/ entries[i].val < entries[j].val
                        \/ entries[i].val = entries[j].val /\ i >= j
         IN <<entries[p]>> \o ArraySort_Unstable(WithoutEntry(entries, p))

\* a sort by (a, b) => b[1] - a[1]
RECURSIVE ArraySort_Descending(_)
ArraySort_Descending(entries) ==
    IF entries = <<>> THEN <<>>
    ELSE LET p == CHOOSE i \in 1..Len(entries) :
                    \A j \in 1..Len(entries) :
                        \/ entries[i].val > entries[j].val
                        \/ entries[i].val = entries[j].val /\ i <= j
         IN <<entries[p]>> \o ArraySort_Descending(WithoutEntry(entries, p))

\* Array.prototype.sort((a, b) => a[1] - b[1]): ascending and stable
RECURSIVE ArraySort(_)
ArraySort(entries) ==
    IF entries = <<>> THEN <<>>
    ELSE LET p == CHOOSE i \in 1..Len(entries) :
                    \A j \in 1..Len(entries) :
                        \/ entries[i].val < entries[j].val
                        \/ entries[i].val = entries[j].val /\ i <= j
         IN <<entries[p]>> \o ArraySort(WithoutEntry(entries, p))

\* a loop of sort() that keeps a key whose value is undefined
RECURSIVE SortedView_KeepsUndefined(_, _, _)
SortedView_KeepsUndefined(sortedKeys, map, sortedMap) ==
    IF sortedKeys = <<>> THEN sortedMap
    ELSE LET key == Head(sortedKeys).key
             value == MapGet(map, key)
         IN SortedView_KeepsUndefined(Tail(sortedKeys), map, MapPut(sortedMap, key, value))

\* the loop of sort(): the view built from the sorted keys
RECURSIVE SortedView(_, _, _)
SortedView(sortedKeys, map, sortedMap) ==
    IF sortedKeys = <<>> THEN sortedMap
    ELSE LET key == Head(sortedKeys).key
             value == MapGet(map, key)
         IN IF value = UndefinedValue
            THEN SortedView(Tail(sortedKeys), map, sortedMap)
            ELSE SortedView(Tail(sortedKeys), map, MapPut(sortedMap, key, value))

\* SortedMap.sort: the new Map it returns
sort(r) == SortedView(ArraySort(r.sortedKeys), r.map, <<>>)

\* SortedMap.clear
clear(r) == [map |-> <<>>, sortedKeys |-> <<>>, maxOrder |-> 0]

\* history of registry since its last clear: the orders stored, the keys in
\* the order they were first inserted, and the keys of the set calls as long
\* as every call had a new key and no order (auto), and had any of them thrown
NewSetLog == [stored |-> {}, first |-> <<>>, auto |-> TRUE, autoKeys |-> <<>>,
              autoThrew |-> FALSE]

\* what a SortedMap call did: before is the registry when it began
MapRet(op, key, value, order, threw, view, before) ==
    [op |-> op, key |-> key, value |-> value, order |-> order, threw |-> threw,
     view |-> view, before |-> before]

\* ------------------------------------------------------------------------
\* ApplicationBuilder: the process it listens to
\* ------------------------------------------------------------------------
\* the default of the constructor's exitSignals
exitSignals == {"SIGINT", "SIGTERM"}

\* ------------------------------------------------------------------------
\* Application life cycle status
\* ------------------------------------------------------------------------
\* ApplicationDefaultStatus
UNKNOWN == "UNKNOWN"

\* ApplicationStartupStatus
STARTING == "STARTING"

UP == "UP"

\* ApplicationShutdownStatus
STOPPING == "STOPPING"

STOPPED == "STOPPED"

\* ApplicationStatus (UP is the same string in ApplicationStartupStatus)
DOWN == "DOWN"

ApplicationLifeCycleStatusTypes == {UNKNOWN, STARTING, UP, STOPPING, STOPPED, DOWN}

\* what a call on the builder answered: ok is FALSE iff it rejected, error
\* is what it rejected with, phase the lifecycle status the call found,
\* code the HTTP status of a health answer, stage the health stage asked,
\* probe what the probe reported, reported what the shutdown handler
\* reported, at the rank of a health query among the calls
LcRet(op, ok, error, phase, code, stage) ==
    [op |-> op, ok |-> ok, error |-> error, phase |-> phase, code |-> code,
     stage |-> stage, probe |-> UP, reported |-> "", at |-> 0]

\* ------------------------------------------------------------------------
\* Frames of suspended calls
\* ------------------------------------------------------------------------
Slots == 1..MaxCalls

\* via tells who called disposeAll: "" a caller of the container, "signal"
\* the exit handler, "asyncDispose" the builder's [Symbol.asyncDispose]
Idle == [kind |-> "idle", name |-> "", inst |-> Undefined, seqArg |-> <<>>,
         sorted |-> <<>>, idx |-> 0, phase |-> "", snap |-> <<>>, base |-> 0,
         via |-> ""]

AllIdle == \A i \in Slots : calls[i].kind = "idle"

\* the slot a new call takes
Free(i) ==
    /\ calls[i].kind = "idle"
    /\ \A j \in Slots : j < i => calls[j].kind # "idle"

CanIssue == ops < MaxOps /\ (overlap \/ AllIdle)

\* the dispose-sequence counter stays within MaxRegs
CanRegister ==
    disposeSequence + Cardinality({i \in Slots : calls[i].kind = "createAsync"}) < MaxRegs

\* the return of a call: ok is FALSE iff it threw / rejected (for
\* registerInstance: the boolean returned), hit is TRUE iff the name was
\* registered when the call began, base is the length of the log then,
\* override is the overrideExistingInstance a registerInstance call passed
Ret(op, name, ok, value, hit, base) ==
    [op |-> op, name |-> name, ok |-> ok, value |-> value, hit |-> hit, base |-> base,
     snap |-> <<>>, override |-> TRUE, via |-> ""]

\* the return of disposeAll, with the Sets it started from
RetAll(f, name, ok, value, hit) ==
    [Ret("disposeAll", name, ok, value, hit, f.base) EXCEPT !.snap = f.snap, !.via = f.via]

NewInstance(cls) == [id |-> nextId + 1, cls |-> cls]

\* history: how instance inst was registered, c being the container after:
\* the disposeSequence argument, the dispose sequence it was recorded in,
\* the rank of the registration among all registrations and the kind of
\* object registered
Registration(rg, inst, name, seqArg, c) ==
    MapSet(rg, inst.id, [name |-> name, seqArg |-> seqArg,
                         seq |-> EffectiveSequence(seqArg, c.ds), at |-> c.ds,
                         cls |-> inst.cls])

\* the state after construction, for callers that await every call
\* (overlapping FALSE) or that do not
InitWith(overlapping) ==
    /\ singletonContainer = << >>
    /\ disposeSequenceMap = << >>
    /\ disposeSequence = 0
    /\ calls = [i \in Slots |-> Idle]
    /\ ret = Ret("none", "", TRUE, Undefined, FALSE, 0)
    /\ log = << >>
    /\ regs = << >>
    /\ nextId = 0
    /\ ops = 0
    /\ overlap = overlapping
    /\ registry = NewSortedMap
    /\ bucket = NewSortedMap
    /\ mapRet = MapRet("none", "", UndefinedValue, OrderUndefined, FALSE, <<>>, NewSortedMap)
    /\ setLog = NewSetLog
    /\ listeners = [s \in exitSignals |-> 1]
    /\ emitted = <<>>
    /\ disposeCalled = FALSE
    /\ lifecycle = UNKNOWN
    /\ healthHandlers = NewSortedMap
    /\ lcRet = LcRet("none", TRUE, "", UNKNOWN, 0, "")
    /\ shutdownCalls = 0
    /\ built = <<>>
    /\ callerHeaders = NewHeaders
    /\ httpRet = NoRequest

Init == InitWith(FALSE)

InitOverlap == InitWith(TRUE)

\* ------------------------------------------------------------------------
\* BootstrapConstructor: the object a constructor / factory call produces
\* ------------------------------------------------------------------------
bootstrapCreateInstance(cls) == NewInstance(cls)

bootstrapCreateInstanceWithoutConstructor(cls) == NewInstance(cls)

bootstrapCreateAsyncInstanceWithoutConstructor(cls) == NewInstance(cls)

\* ------------------------------------------------------------------------
\* BootstrapConstructor: its three methods as functions of their arguments
\* ------------------------------------------------------------------------
\* what a caller passes as typeConstructor: MyClass keeps its first
\* argument as name, FailingClass throws in its constructor
TypeConstructors == {"MyClass", "FailingClass"}

\* what a caller passes as typeConstructorFunction: a function that builds
\* a MyClass from its first argument, and one that throws / rejects
TypeConstructorFunctions == {"constructorFunction", "failingFunction"}

\* the optional constructorArguments: not given, or an array
NoArguments == [given |-> FALSE, list |-> <<>>]

Arguments(list) == [given |-> TRUE, list |-> list]

ConstructorArguments ==
    {NoArguments, Arguments(<<>>), Arguments(<<"John">>), Arguments(<<"Jane">>)}

\* the object new MyClass(...args) is
MyClass(args) == [cls |-> "MyClass", name |-> IF Len(args) > 0 THEN args[1] ELSE "undefined"]

\* what the failing constructor / function throws, whatever its arguments
ConstructionError == [cls |-> "Error", name |-> "construction failed"]

\* new typeConstructor(...args) and typeConstructorFunction(...args): the
\* value produced, or the error thrown / the rejection
Invoke(callable, args) ==
    IF callable \in {"MyClass", "constructorFunction"}
    THEN [threw |-> FALSE, value |-> MyClass(args)]
    ELSE [threw |-> TRUE, value |-> ConstructionError]

\* (constructorArguments || []) that passes no argument at all
OrEmpty_DropsArguments(constructorArguments) == <<>>

\* (constructorArguments || []): an array, even an empty one, is truthy
OrEmpty(constructorArguments) ==
    IF constructorArguments.given THEN constructorArguments.list ELSE <<>>

BootstrapConstructor_createInstance(typeConstructor, constructorArguments) ==
    Invoke(typeConstructor, OrEmpty(constructorArguments))

\* the outcome is the settlement of the promise returned
BootstrapConstructor_createAsyncInstanceWithoutConstructor(typeConstructor, constructorArguments) ==
    Invoke(typeConstructor, OrEmpty(constructorArguments))

BootstrapConstructor_createInstanceWithoutConstructor(typeConstructor, constructorArguments) ==
    Invoke(typeConstructor, OrEmpty(constructorArguments))

\* a call on one BootstrapConstructor, recorded with its outcome
BuildCall(method, callable, constructorArguments, outcome) ==
    /\ Len(built) < MaxBuilds
    /\ built' = Append(built, [method |-> method, callable |-> callable,
                               args |-> constructorArguments, out |-> outcome])
    /\ UNCHANGED <<singletonContainer, disposeSequenceMap, disposeSequence, calls, ret,
                   log, regs, nextId, ops, overlap, mapVars, listeners, emitted,
                   disposeCalled, lifecycle, healthHandlers, lcRet, shutdownCalls,
                   httpVars>>

NextBootstrap ==
    \/ \E c \in TypeConstructors, a \in ConstructorArguments :
          BuildCall("createInstance", c, a, BootstrapConstructor_createInstance(c, a))
    \/ \E f \in TypeConstructorFunctions, a \in ConstructorArguments :
          BuildCall("createAsyncInstanceWithoutConstructor", f, a,
                    BootstrapConstructor_createAsyncInstanceWithoutConstructor(f, a))
    \/ \E f \in TypeConstructorFunctions, a \in ConstructorArguments :
          BuildCall("createInstanceWithoutConstructor", f, a,
                    BootstrapConstructor_createInstanceWithoutConstructor(f, a))

SpecBootstrap == Init /\ [][NextBootstrap]_vars

\* ------------------------------------------------------------------------
\* Calls on the request helpers
\* ------------------------------------------------------------------------
\* the headers argument: the caller's long-lived object, or a new one
HeadersArgument(reused) == IF reused THEN callerHeaders ELSE NewHeaders

\* await CompressionUtil.compressiblePost(headers, body, url, payloadLimit)
CompressiblePostCall(reused, body, payloadLimitArg, gzipThrows, fetchResult) ==
    /\ httpRet.n < MaxRequests
    /\ LET out == compressiblePost(HeadersArgument(reused), body, TheUrl, payloadLimitArg,
                                   gzipThrows, fetchResult)
       IN /\ callerHeaders' = IF reused THEN out.headers ELSE callerHeaders
          /\ httpRet' = HttpRet("compressiblePost", httpRet.n + 1, reused,
                                HeadersArgument(reused), "POST", body, payloadLimitArg,
                                <<>>, gzipThrows, fetchResult, out)
    /\ UNCHANGED <<singletonContainer, disposeSequenceMap, disposeSequence, calls, ret,
                   log, regs, nextId, ops, overlap, mapVars, listeners, emitted,
                   disposeCalled, lifecycle, healthHandlers, lcRet, shutdownCalls, built>>

\* await convenience.compressibleRequestGZIP(httpVerb, url, headers,
\* bodyStream, shouldCompress, context)
CompressibleRequestGZIPCall(reused, httpVerb, bodyStream, shouldCompressArg, fetchResult) ==
    /\ httpRet.n < MaxRequests
    /\ LET out == compressibleRequestGZIP(httpVerb, TheUrl, HeadersArgument(reused),
                                          bodyStream, shouldCompressArg, fetchResult)
       IN /\ callerHeaders' = IF reused THEN out.headers ELSE callerHeaders
          /\ httpRet' = HttpRet("compressibleRequestGZIP", httpRet.n + 1, reused,
                                HeadersArgument(reused), httpVerb, bodyStream, <<>>,
                                shouldCompressArg, FALSE, fetchResult, out)
    /\ UNCHANGED <<singletonContainer, disposeSequenceMap, disposeSequence, calls, ret,
                   log, regs, nextId, ops, overlap, mapVars, listeners, emitted,
                   disposeCalled, lifecycle, healthHandlers, lcRet, shutdownCalls, built>>

\* an optional argument left out is <<>>
NextHttp ==
    \/ \E reused \in BOOLEAN, body \in Payloads, l \in {<<>>, <<0>>, <<11>>, <<12>>},
          gzipThrows \in BOOLEAN, f \in FetchResults :
          CompressiblePostCall(reused, body, l, gzipThrows, f)
    \/ \E reused \in BOOLEAN, v \in {"POST", "PUT"},
          b \in {UndefinedStream, ReadableStream(Repeat(120, 1))},
          c \in {<<>>, <<TRUE>>, <<FALSE>>}, f \in FetchResults :
          CompressibleRequestGZIPCall(reused, v, b, c, f)

SpecHttp == Init /\ [][NextHttp]_vars

\* ------------------------------------------------------------------------
\* The create entry points
\* ------------------------------------------------------------------------
\* a create method without the has(name) check
CreateSync_AlwaysBuilds(op, name, newInstance, seqArg) ==
    /\ CanIssue
    /\ ops' = ops + 1
    /\ LET r == registerInstance(Cont, name, newInstance, seqArg, TRUE)
       IN /\ CanRegister
          /\ Store(r.c)
          /\ nextId' = nextId + 1
          /\ regs' = Registration(regs, newInstance, name, seqArg, r.c)
          /\ ret' = Ret(op, name, TRUE, Get(r.c.sc, name), Has(singletonContainer, name),
                        Len(log))
    /\ UNCHANGED <<calls, log, overlap, mapVars, appVars>>

\* a create method that counts a dispose sequence also when the name is there
CreateSync_HitCountsSequence(op, name, newInstance, seqArg) ==
    /\ CanIssue
    /\ ops' = ops + 1
    /\ CanRegister
    /\ IF ~Has(singletonContainer, name)
       THEN LET r == registerInstance(Cont, name, newInstance, seqArg, TRUE)
            IN /\ Store(r.c)
               /\ nextId' = nextId + 1
               /\ regs' = Registration(regs, newInstance, name, seqArg, r.c)
               /\ ret' = Ret(op, name, TRUE, Get(r.c.sc, name), FALSE, Len(log))
       ELSE /\ disposeSequence' = disposeSequence + 1
            /\ UNCHANGED <<singletonContainer, disposeSequenceMap, nextId, regs>>
            /\ ret' = Ret(op, name, TRUE, Get(singletonContainer, name), TRUE, Len(log))
    /\ UNCHANGED <<calls, log, overlap, mapVars, appVars>>

\* the common shape of the two synchronous create methods
CreateSync(op, name, newInstance, seqArg) ==
    /\ CanIssue
    /\ ops' = ops + 1
    /\ IF ~Has(singletonContainer, name)
       THEN LET r == registerInstance(Cont, name, newInstance, seqArg, TRUE)
            IN /\ CanRegister
               /\ Store(r.c)
               /\ nextId' = nextId + 1
               /\ regs' = Registration(regs, newInstance, name, seqArg, r.c)
               /\ ret' = Ret(op, name, TRUE, Get(r.c.sc, name), FALSE, Len(log))
       ELSE /\ UNCHANGED <<singletonContainer, disposeSequenceMap, disposeSequence,
                           nextId, regs>>
            /\ ret' = Ret(op, name, TRUE, Get(singletonContainer, name), TRUE, Len(log))
    /\ UNCHANGED <<calls, log, overlap, mapVars, appVars>>

createInstance(name, cls, seqArg) ==
    CreateSync("createInstance", name, bootstrapCreateInstance(cls), seqArg)

createInstanceWithoutConstructor(name, cls, seqArg) ==
    CreateSync("createInstanceWithoutConstructor", name,
               bootstrapCreateInstanceWithoutConstructor(cls), seqArg)

\* up to the await of the factory's promise
createAsyncInstanceWithoutConstructor(i, name, cls, seqArg) ==
    /\ CanIssue
    /\ Free(i)
    /\ ops' = ops + 1
    /\ IF ~Has(singletonContainer, name)
       THEN /\ CanRegister
            /\ calls' = [calls EXCEPT ![i] =
                           [Idle EXCEPT !.kind = "createAsync", !.name = name, !.base = Len(log),
                                        !.inst = bootstrapCreateAsyncInstanceWithoutConstructor(cls),
                                        !.seqArg = seqArg]]
            /\ nextId' = nextId + 1
            /\ UNCHANGED ret
       ELSE /\ ret' = Ret("createAsyncInstanceWithoutConstructor", name, TRUE,
                          Get(singletonContainer, name), TRUE, Len(log))
            /\ UNCHANGED <<calls, nextId>>
    /\ UNCHANGED <<singletonContainer, disposeSequenceMap, disposeSequence,
                   log, regs, overlap, mapVars, appVars>>

\* the factory's promise resolved: register and return
createAsyncInstanceWithoutConstructorResume(i) ==
    /\ calls[i].kind = "createAsync"
    /\ LET f == calls[i]
           r == registerInstance(Cont, f.name, f.inst, f.seqArg, TRUE)
       IN /\ Store(r.c)
          /\ regs' = Registration(regs, f.inst, f.name, f.seqArg, r.c)
          /\ ret' = Ret("createAsyncInstanceWithoutConstructor", f.name, TRUE,
                        Get(r.c.sc, f.name), FALSE, f.base)
    /\ calls' = [calls EXCEPT ![i] = Idle]
    /\ UNCHANGED <<log, nextId, ops, overlap, mapVars, appVars>>

fetchInstance(name) ==
    /\ CanIssue
    /\ ops' = ops + 1
    /\ ret' = Ret("fetchInstance", name, TRUE, Get(singletonContainer, name),
                  Has(singletonContainer, name), Len(log))
    /\ UNCHANGED <<singletonContainer, disposeSequenceMap, disposeSequence,
                   calls, log, regs, nextId, overlap, mapVars, appVars>>

\* a caller registers an object it built itself; ret.ok is the boolean returned
RegisterInstanceCall(name, cls, seqArg, overrideExistingInstance) ==
    /\ CanIssue
    /\ ops' = ops + 1
    /\ LET instance == NewInstance(cls)
           r == registerInstance(Cont, name, instance, seqArg, overrideExistingInstance)
       IN /\ r.ok => CanRegister
          /\ Store(r.c)
          /\ regs' = IF r.ok THEN Registration(regs, instance, name, seqArg, r.c) ELSE regs
          /\ ret' = [Ret("registerInstance", name, r.ok, instance,
                         Has(singletonContainer, name), Len(log))
                        EXCEPT !.override = overrideExistingInstance]
    /\ nextId' = nextId + 1
    /\ UNCHANGED <<calls, log, overlap, mapVars, appVars>>

\* ------------------------------------------------------------------------
\* Disposal
\* ------------------------------------------------------------------------
disposeInstance(i, name) ==
    /\ CanIssue
    /\ Free(i)
    /\ ops' = ops + 1
    /\ \E syncThrows \in MayFail(Get(singletonContainer, name)) :
         LET b == disposeInstanceBegin(Cont, name, syncThrows)
         IN /\ log' = log \o b.events
            /\ Store(b.c)
            /\ IF b.status = "await"
               THEN /\ calls' = [calls EXCEPT ![i] =
                                   [Idle EXCEPT !.kind = "disposeInstance", !.name = name,
                                                !.inst = b.inst, !.base = Len(log)]]
                    /\ UNCHANGED ret
               ELSE /\ ret' = Ret("disposeInstance", name, b.status # "threw",
                                  b.inst, b.status # "absent", Len(log))
                    /\ UNCHANGED calls
    /\ UNCHANGED <<regs, nextId, overlap, mapVars, appVars>>

\* the events of the step that resumes disposeInstance after its await
AsyncEndEvents(f, rejects) ==
    <<Ev("asyncDisposeEnd", f.inst, f.name, ~rejects)>> \o
    (IF ~rejects /\ Has(singletonContainer, f.name)
     THEN <<Ev("removed", singletonContainer[f.name], f.name, TRUE)>> ELSE <<>>)

\* the promise of [Symbol.asyncDispose]() settled
disposeInstanceResume(i) ==
    /\ calls[i].kind = "disposeInstance"
    /\ LET f == calls[i]
       IN \E rejects \in MayFail(f.inst) :
            /\ log' = log \o AsyncEndEvents(f, rejects)
            /\ Store(IF rejects THEN Cont ELSE removeInstance(Cont, f.name))
            /\ ret' = Ret("disposeInstance", f.name, ~rejects, f.inst, TRUE, f.base)
    /\ calls' = [calls EXCEPT ![i] = Idle]
    /\ UNCHANGED <<regs, nextId, ops, overlap, mapVars, appVars>>

\* disposeAll from the head of its inner loop up to its next await, or to
\* its end: f is the frame, c the container, lg the log
DisposeAllLoop(i, f, c, lg) ==
    LET nm == NextMember(f.sorted, f.idx, c.dsm)
    IN IF ~nm.found
       THEN /\ Store(c)
            /\ log' = lg
            /\ calls' = [calls EXCEPT ![i] = Idle]
            /\ ret' = RetAll(f, "", TRUE, Undefined, FALSE)
       ELSE \E syncThrows \in MayFail(Get(c.sc, nm.name)) :
              LET b == disposeInstanceBegin(c, nm.name, syncThrows)
                  g == [f EXCEPT !.sorted = nm.sorted, !.idx = nm.idx,
                                 !.name = nm.name, !.inst = b.inst]
              IN /\ log' = lg \o b.events
                 /\ Store(b.c)
                 /\ IF b.status = "threw"
                    THEN /\ calls' = [calls EXCEPT ![i] = Idle]
                         /\ ret' = RetAll(f, nm.name, FALSE, b.inst, TRUE)
                    ELSE /\ calls' = [calls EXCEPT ![i] =
                                        [g EXCEPT !.phase =
                                            IF b.status = "await" THEN "hook" ELSE "resume"]]
                         /\ UNCHANGED ret

disposeAll(i) ==
    /\ CanIssue
    /\ Free(i)
    /\ ops' = ops + 1
    /\ DisposeAllLoop(i, [Idle EXCEPT !.kind = "disposeAll",
                                      !.sorted = sortedDisposeSequence(disposeSequenceMap),
                                      !.snap = disposeSequenceMap,
                                      !.base = Len(log)],
                      Cont, log)
    /\ UNCHANGED <<regs, nextId, overlap, mapVars, appVars>>

\* the promise of [Symbol.asyncDispose]() of the current member settled
disposeAllHookSettles(i) ==
    /\ calls[i].kind = "disposeAll"
    /\ calls[i].phase = "hook"
    /\ LET f == calls[i]
       IN \E rejects \in MayFail(f.inst) :
            /\ log' = log \o AsyncEndEvents(f, rejects)
            /\ IF rejects
               THEN /\ UNCHANGED <<singletonContainer, disposeSequenceMap, disposeSequence>>
                    /\ calls' = [calls EXCEPT ![i] = Idle]
                    /\ ret' = RetAll(f, f.name, FALSE, f.inst, TRUE)
               ELSE /\ Store(removeInstance(Cont, f.name))
                    /\ calls' = [calls EXCEPT ![i] = [f EXCEPT !.phase = "resume"]]
                    /\ UNCHANGED ret
    /\ UNCHANGED <<regs, nextId, ops, overlap, mapVars, appVars>>

\* await this.disposeInstance(instanceName) returned: next iteration
disposeAllResume(i) ==
    /\ calls[i].kind = "disposeAll"
    /\ calls[i].phase = "resume"
    /\ DisposeAllLoop(i, calls[i], Cont, log)
    /\ UNCHANGED <<regs, nextId, ops, overlap, mapVars, appVars>>

Next ==
    \/ \E n \in Names, k \in Classes, s \in SeqArgs : createInstance(n, k, s)
    \/ \E n \in Names, k \in Classes, s \in SeqArgs : createInstanceWithoutConstructor(n, k, s)
    \/ \E i \in Slots, n \in Names, k \in Classes, s \in SeqArgs :
          createAsyncInstanceWithoutConstructor(i, n, k, s)
    \/ \E i \in Slots : createAsyncInstanceWithoutConstructorResume(i)
    \/ \E n \in Names : fetchInstance(n)
    \/ \E n \in Names, k \in Classes, s \in SeqArgs, o \in BOOLEAN :
          RegisterInstanceCall(n, k, s, o)
    \/ \E i \in Slots, n \in Names : disposeInstance(i, n)
    \/ \E i \in Slots : disposeInstanceResume(i)
    \/ \E i \in Slots : disposeAll(i)
    \/ \E i \in Slots : disposeAllHookSettles(i)
    \/ \E i \in Slots : disposeAllResume(i)

Spec == Init /\ [][Next]_vars

\* the values callers hand over when some of them are null or undefined
NullishClasses == {"Plain", Nullish, "Disposable"}

\* registration and release of values some of which are null or undefined
NextNullish ==
    \/ \E n \in Names, k \in NullishClasses, s \in {<<>>, <<1>>} :
          createInstanceWithoutConstructor(n, k, s)
    \/ \E n \in Names, k \in NullishClasses, s \in {<<>>, <<1>>}, o \in BOOLEAN :
          RegisterInstanceCall(n, k, s, o)
    \/ \E i \in Slots, n \in Names : disposeInstance(i, n)
    \/ \E i \in Slots : disposeInstanceResume(i)
    \/ \E i \in Slots : disposeAll(i)
    \/ \E i \in Slots : disposeAllHookSettles(i)
    \/ \E i \in Slots : disposeAllResume(i)

SpecNullish == Init /\ [][NextNullish]_vars

\* the disposeSequence arguments of the overlapping calls
OverlapSeqArgs == {<<>>, <<1>>}

\* the calls that create, register and fetch, made by callers that do not
\* await a call before they make the next
NextOverlap ==
    \/ \E n \in Names, k \in Classes, s \in OverlapSeqArgs : createInstance(n, k, s)
    \/ \E n \in Names, k \in Classes, s \in OverlapSeqArgs : createInstanceWithoutConstructor(n, k, s)
    \/ \E i \in Slots, n \in Names, k \in Classes, s \in OverlapSeqArgs :
          createAsyncInstanceWithoutConstructor(i, n, k, s)
    \/ \E i \in Slots : createAsyncInstanceWithoutConstructorResume(i)
    \/ \E n \in Names : fetchInstance(n)
    \/ \E n \in Names, k \in Classes, s \in OverlapSeqArgs, o \in BOOLEAN :
          RegisterInstanceCall(n, k, s, o)

SpecOverlap == InitOverlap /\ [][NextOverlap]_vars

\* ------------------------------------------------------------------------
\* Calls on the SortedMap of an application's handlers
\* ------------------------------------------------------------------------
contVars == <<singletonContainer, disposeSequenceMap, disposeSequence, calls,
              ret, log, regs, nextId, overlap>>

\* setLog after a set call on registry that left it as r
Logged(key, order, threw, r) ==
    LET auto == setLog.auto /\ order = OrderUndefined
                /\ ~\E i \in 1..Len(setLog.autoKeys) : setLog.autoKeys[i] = key
        isNew == ~\E i \in 1..Len(setLog.first) : setLog.first[i] = key
    IN [stored    |-> IF threw THEN setLog.stored
                      ELSE setLog.stored \cup {MapGet(r.sortedKeys, key)},
        first     |-> IF ~threw /\ isNew THEN Append(setLog.first, key) ELSE setLog.first,
        auto      |-> auto,
        autoKeys  |-> IF auto THEN Append(setLog.autoKeys, key) ELSE setLog.autoKeys,
        autoThrew |-> setLog.autoThrew \/ (auto /\ threw)]

\* registry.set(key, value, order); registering a handler for a hosting path
\* other than "*" is this call
SetCall(key, value, order) ==
    /\ ops < MaxMapOps
    /\ ops' = ops + 1
    /\ LET s == set(registry, key, value, order)
       IN /\ registry' = s.r
          /\ mapRet' = MapRet("set", key, value, order, s.threw, <<>>, registry)
          /\ setLog' = Logged(key, order, s.threw, s.r)
    /\ UNCHANGED <<bucket, contVars, appVars>>

\* sort() of registry or of the SortedMap nested in it
SortCall(which) ==
    /\ ops < MaxMapOps
    /\ ops' = ops + 1
    /\ mapRet' = MapRet("sort", which, UndefinedValue, OrderUndefined, FALSE,
                        sort(IF which = GlobalKey THEN bucket ELSE registry), registry)
    /\ UNCHANGED <<registry, bucket, setLog, contVars, appVars>>

\* registry.clear(); the nested SortedMap is no longer referred to
ClearCall ==
    /\ ops < MaxMapOps
    /\ ops' = ops + 1
    /\ registry' = clear(registry)
    /\ bucket' = NewSortedMap
    /\ mapRet' = MapRet("clear", "", UndefinedValue, OrderUndefined, FALSE, <<>>, registry)
    /\ setLog' = NewSetLog
    /\ UNCHANGED <<contVars, appVars>>

\* hostingPath + order, the key of a global handler
PathOrderKey(order) ==
    GlobalKey \o (IF order.t = "int" THEN ToString(order.v) ELSE order.t)

\* registering a handler for "*": it goes into the nested SortedMap, keyed by
\* path + order, and the nested SortedMap into registry under "*" at order 0
registerApplicationHandler(handler, order) ==
    /\ ops < MaxMapOps
    /\ ops' = ops + 1
    /\ LET existing == IF MapHas(registry.map, GlobalKey) THEN bucket ELSE NewSortedMap
           b == set(existing, PathOrderKey(order), handler, order)
           s == set(registry, GlobalKey, BucketRef, Num(0))
       IN IF b.threw
          THEN /\ mapRet' = MapRet("registerApplicationHandler", GlobalKey, handler, order,
                                   TRUE, <<>>, registry)
               /\ UNCHANGED <<registry, bucket, setLog>>
          ELSE /\ bucket' = b.r
               /\ registry' = s.r
               /\ setLog' = Logged(GlobalKey, Num(0), s.threw, s.r)
               /\ mapRet' = MapRet("registerApplicationHandler", GlobalKey, handler, order,
                                   s.threw, <<>>, registry)
    /\ UNCHANGED <<contVars, appVars>>

NextSortedMap ==
    \/ \E k \in Keys, v \in Values, o \in OrderArgs : SetCall(k, v, o)
    \/ \E w \in {"", GlobalKey} : SortCall(w)
    \/ ClearCall
    \/ \E h \in Handlers, o \in OrderArgs : registerApplicationHandler(h, o)

SpecSortedMap == Init /\ [][NextSortedMap]_vars

\* ------------------------------------------------------------------------
\* ApplicationBuilder: start, the exit signals and [Symbol.asyncDispose]
\* ------------------------------------------------------------------------
\* the listeners start() creates, in the order of its statements
startSequence == <<"applicationExpress", "healthExpress">>

\* createInstanceWithoutConstructor that does not look for the name
NeedsCreate_Always(c, name) == TRUE

\* createInstanceWithoutConstructor: if (!this.singletonContainer.has(name))
NeedsCreate(c, name) == ~Has(c.sc, name)

\* currentProcess.on in place of once: the listener stays after the signal
emitOnce_KeepsListener(ls, signal) == ls

\* the listeners left when signal was emitted: a once-listener is removed
\* before it is invoked
emitOnce(ls, signal) == [ls EXCEPT ![signal] = 0]

\* currentProcess.removeListener(signal, this.exitHandler) for every signal
removeListeners(ls) ==
    [s \in DOMAIN ls |-> IF s \in exitSignals /\ ls[s] > 0 THEN ls[s] - 1 ELSE ls[s]]

\* start() from its k-th statement on, up to its next await or to its end:
\* f is the frame, c the container
StartFrom(i, f, c, k) ==
    LET todo == {j \in k..Len(startSequence) : NeedsCreate(c, startSequence[j])}
    IN /\ Store(c)
       /\ IF todo = {}
          THEN /\ calls' = [calls EXCEPT ![i] = Idle]
               /\ ret' = Ret("start", "", TRUE, Undefined, f.phase = "hit", f.base)
               /\ nextId' = nextId
          ELSE LET j == CHOOSE x \in todo : \A y \in todo : x <= y
               IN /\ calls' = [calls EXCEPT ![i] =
                                 [f EXCEPT !.idx = j, !.name = startSequence[j],
                                           !.inst = NewInstance(Listener)]]
                  /\ nextId' = nextId + 1
                  /\ UNCHANGED ret

\* the embedding application awaits each of its calls on the builder before
\* it makes the next; an exit signal waits for nothing
CanCall ==
    /\ ops < MaxOps
    /\ overlap \/ \A j \in Slots : /\ calls[j].kind # "start"
                                   /\ calls[j].via # "asyncDispose"

\* start(): up to the await of the first listener it has to create
start(i) ==
    /\ CanCall
    /\ Free(i)
    /\ ops' = ops + 1
    /\ StartFrom(i, [Idle EXCEPT !.kind = "start", !.base = Len(log),
                                 !.phase = IF \A j \in 1..Len(startSequence) :
                                                  Has(singletonContainer, startSequence[j])
                                           THEN "hit" ELSE "miss"],
                 Cont, 1)
    /\ UNCHANGED <<log, regs, overlap, mapVars, appVars>>

\* the promise of appExpressListen / healthExpressListen settled: the
\* listener is registered and start() goes on, or start() rejects
startResume(i) ==
    /\ calls[i].kind = "start"
    /\ LET f == calls[i]
       IN \E rejects \in BOOLEAN :
            IF rejects
            THEN /\ calls' = [calls EXCEPT ![i] = Idle]
                 /\ ret' = Ret("start", f.name, FALSE, f.inst, f.phase = "hit", f.base)
                 /\ UNCHANGED <<singletonContainer, disposeSequenceMap, disposeSequence,
                                regs, nextId>>
            ELSE LET r == registerInstance(Cont, f.name, f.inst, <<>>, TRUE)
                 IN /\ regs' = Registration(regs, f.inst, f.name, <<>>, r.c)
                    /\ StartFrom(i, f, r.c, f.idx + 1)
    /\ UNCHANGED <<log, ops, overlap, mapVars, appVars>>

\* a new disposeAll frame
DisposeAllFrame(via) ==
    [Idle EXCEPT !.kind = "disposeAll",
                 !.sorted = sortedDisposeSequence(disposeSequenceMap),
                 !.snap = disposeSequenceMap,
                 !.base = Len(log),
                 !.via = via]

\* the process gets an exit signal: the once-listener of the signal, if
\* still attached, is detached and calls exitHandler, the bound disposeAll;
\* emitted records whether a start() was awaiting a listener then
exitSignal(i, signal) ==
    /\ ops < MaxOps
    /\ ops' = ops + 1
    /\ emitted' = Append(emitted, [signal |-> signal, invoked |-> listeners[signal],
                                   detached |-> disposeCalled,
                                   starting |-> \E j \in Slots : calls[j].kind = "start"])
    /\ IF listeners[signal] = 0
       THEN UNCHANGED <<singletonContainer, disposeSequenceMap, disposeSequence,
                        calls, ret, log, listeners>>
       ELSE /\ Free(i)
            /\ listeners' = emitOnce(listeners, signal)
            /\ DisposeAllLoop(i, DisposeAllFrame("signal"), Cont, log)
    /\ UNCHANGED <<regs, nextId, overlap, mapVars, disposeCalled, lcVars>>

\* [Symbol.asyncDispose]() of the builder, up to the first await of
\* container.disposeAll(); its tail empties appMiddlewares and appRouters
asyncDispose(i) ==
    /\ CanCall
    /\ Free(i)
    /\ ops' = ops + 1
    /\ listeners' = removeListeners(listeners)
    /\ disposeCalled' = TRUE
    /\ DisposeAllLoop(i, DisposeAllFrame("asyncDispose"), Cont, log)
    /\ UNCHANGED <<regs, nextId, overlap, mapVars, emitted, lcVars>>

NextApp ==
    \/ \E i \in Slots : start(i)
    \/ \E i \in Slots : startResume(i)
    \/ \E i \in Slots, s \in exitSignals : exitSignal(i, s)
    \/ \E i \in Slots : asyncDispose(i)
    \/ \E i \in Slots : disposeAllHookSettles(i)
    \/ \E i \in Slots : disposeAllResume(i)

SpecApp == Init /\ [][NextApp]_vars

\* ------------------------------------------------------------------------
\* ApplicationBuilder with a life cycle: start with a startup handler,
\* shutdown with a shutdown handler, registries of handlers, checkHealth
\* ------------------------------------------------------------------------
\* the listeners start() creates once the startup handler reported UP
listenSequence == <<"healthExpress", "applicationExpress">>

\* the router start() hands to the startup handler
RootRouter == "rootRouter"

\* how the startup handler ends: the status it reports, or "throws"
Throws == "throws"

StartupResults == {UP, DOWN, Throws}

\* the status the shutdown handler reports
ShutdownResults == {STOPPED, STOPPING}

\* the stage of a health query; "bogus" is no stage
Stages == {"startup", "readiness", "liveliness", "bogus"}

\* the status a probe's check() reports
ProbeResults == {UP, DOWN}

\* the error the startup handler throws
Boom == "boom"

\* the error a listener that cannot listen rejects with
ListenError == "listen"

\* the error a release hook throws or rejects with
HookError == "hook"

\* the embedding application awaits each of its calls on the builder before
\* it makes the next; an exit signal waits for nothing
LcCanCall ==
    /\ ops < MaxOps
    /\ \A j \in Slots : /\ calls[j].kind # "lcStart"
                        /\ calls[j].via # "asyncDispose"

\* registerApplicationHandler(handler, path, order, ApplicationTypes.Both)
\* for a path of its own: the same entry in both registries
registerBoth(maps, path, handler, order) ==
    [app |-> set(maps.app, path, handler, order).r,
     health |-> set(maps.health, path, handler, order).r]

\* start(): STARTING, then the startup handler is invoked and awaited
lcStart(i) ==
    /\ LcCanCall
    /\ Free(i)
    /\ ops' = ops + 1
    /\ lifecycle' = STARTING
    /\ calls' = [calls EXCEPT ![i] =
                   [Idle EXCEPT !.kind = "lcStart", !.phase = "handler", !.base = Len(log)]]
    /\ UNCHANGED <<singletonContainer, disposeSequenceMap, disposeSequence, ret, log,
                   regs, nextId, overlap, mapVars, listeners, emitted, built, httpVars, disposeCalled,
                   healthHandlers, lcRet, shutdownCalls>>

\* start() from the k-th listener on, up to its next await or to its end:
\* f is the frame, c the container; a listener is created through
\* createAsyncInstanceWithoutConstructor under its well-known name
ListenFrom(i, f, c, k) ==
    LET todo == {j \in k..Len(listenSequence) : ~Has(c.sc, listenSequence[j])}
    IN /\ Store(c)
       /\ IF todo = {}
          THEN /\ calls' = [calls EXCEPT ![i] = Idle]
               /\ lifecycle' = UP
               /\ lcRet' = LcRet("start", TRUE, "", UP, 0, "")
               /\ nextId' = nextId
          ELSE LET j == CHOOSE x \in todo : \A y \in todo : x <= y
               IN /\ calls' = [calls EXCEPT ![i] =
                                 [f EXCEPT !.phase = "listen", !.idx = j,
                                           !.name = listenSequence[j],
                                           !.inst = NewInstance(Listener)]]
                  /\ nextId' = nextId + 1
                  /\ UNCHANGED <<lifecycle, lcRet>>

\* the startup handler settled; while it ran it may have registered a
\* handler for both applications
startupHandlerSettles(i) ==
    /\ calls[i].kind = "lcStart"
    /\ calls[i].phase = "handler"
    /\ \E result \in StartupResults, registers \in BOOLEAN :
         LET maps == IF registers
                     THEN registerBoth([app |-> registry, health |-> healthHandlers],
                                       "/a", "H1", Num(1))
                     ELSE [app |-> registry, health |-> healthHandlers]
         IN /\ healthHandlers' = maps.health
            /\ IF result = UP
               THEN /\ registry' = set(maps.app, "/", RootRouter, Num(0)).r
                    /\ ListenFrom(i, calls[i], Cont, 1)
               ELSE /\ registry' = maps.app
                    /\ lifecycle' = DOWN
                    /\ calls' = [calls EXCEPT ![i] = Idle]
                    /\ lcRet' = LcRet("start", result # Throws,
                                      IF result = Throws THEN Boom ELSE "", DOWN, 0, "")
                    /\ UNCHANGED <<singletonContainer, disposeSequenceMap, disposeSequence,
                                   nextId>>
    /\ UNCHANGED <<ret, log, regs, ops, overlap, bucket, mapRet, setLog,
                   listeners, emitted, built, httpVars, disposeCalled, shutdownCalls>>

\* the promise of a listener's factory settled: the listener is registered
\* and start() goes on, or start() records DOWN and rejects
listenSettles(i) ==
    /\ calls[i].kind = "lcStart"
    /\ calls[i].phase = "listen"
    /\ LET f == calls[i]
       IN \E rejects \in BOOLEAN :
            IF rejects
            THEN /\ calls' = [calls EXCEPT ![i] = Idle]
                 /\ lifecycle' = DOWN
                 /\ lcRet' = LcRet("start", FALSE, ListenError, DOWN, 0, "")
                 /\ UNCHANGED <<singletonContainer, disposeSequenceMap, disposeSequence,
                                regs, nextId>>
            ELSE LET r == registerInstance(Cont, f.name, f.inst, <<>>, TRUE)
                 IN /\ regs' = Registration(regs, f.inst, f.name, <<>>, r.c)
                    /\ ListenFrom(i, f, r.c, f.idx + 1)
    /\ UNCHANGED <<ret, log, ops, overlap, mapVars, listeners, emitted, built, httpVars, disposeCalled,
                   healthHandlers, shutdownCalls>>

\* the shutdown up to the await of the shutdown handler
ShutdownBegin(i, via) ==
    /\ lifecycle' = STOPPING
    /\ shutdownCalls' = shutdownCalls + 1
    /\ calls' = [calls EXCEPT ![i] =
                   [Idle EXCEPT !.kind = "lcShutdown", !.phase = "handler",
                                !.base = Len(log), !.via = via]]

\* the process gets an exit signal: the once-listener of the signal, if
\* still attached, is detached and starts the shutdown
lcExitSignal(i, signal) ==
    /\ ops < MaxOps
    /\ ops' = ops + 1
    /\ IF listeners[signal] = 0
       THEN UNCHANGED <<calls, listeners, lifecycle, shutdownCalls>>
       ELSE /\ Free(i)
            /\ listeners' = emitOnce(listeners, signal)
            /\ ShutdownBegin(i, "signal")
    /\ UNCHANGED <<singletonContainer, disposeSequenceMap, disposeSequence, ret, log,
                   regs, nextId, overlap, mapVars, emitted, built, httpVars, disposeCalled, healthHandlers,
                   lcRet>>

\* [Symbol.asyncDispose]() of the builder, called by the application
lcAsyncDispose(i) ==
    /\ LcCanCall
    /\ Free(i)
    /\ ops' = ops + 1
    /\ ShutdownBegin(i, "asyncDispose")
    /\ UNCHANGED <<singletonContainer, disposeSequenceMap, disposeSequence, ret, log,
                   regs, nextId, overlap, mapVars, listeners, emitted, built, httpVars, disposeCalled,
                   healthHandlers, lcRet>>

\* the shutdown from the head of disposeAll's inner loop up to its next
\* await, or to its end, where the registries are cleared and the status
\* becomes STOPPED: f is the frame, c the container, lg the log
TeardownLoop(i, f, c, lg) ==
    LET nm == NextMember(f.sorted, f.idx, c.dsm)
    IN IF ~nm.found
       THEN /\ Store(c)
            /\ log' = lg
            /\ calls' = [calls EXCEPT ![i] = Idle]
            /\ registry' = clear(registry)
            /\ healthHandlers' = clear(healthHandlers)
            /\ lifecycle' = STOPPED
            /\ lcRet' = [LcRet("dispose", TRUE, "", STOPPED, 0, "") EXCEPT !.reported = STOPPED]
       ELSE \E syncThrows \in MayFail(Get(c.sc, nm.name)) :
              LET b == disposeInstanceBegin(c, nm.name, syncThrows)
                  g == [f EXCEPT !.sorted = nm.sorted, !.idx = nm.idx,
                                 !.name = nm.name, !.inst = b.inst]
              IN /\ log' = lg \o b.events
                 /\ Store(b.c)
                 /\ UNCHANGED <<registry, healthHandlers, lifecycle>>
                 /\ IF b.status = "threw"
                    THEN /\ calls' = [calls EXCEPT ![i] = Idle]
                         /\ lcRet' = [LcRet("dispose", FALSE, HookError, lifecycle, 0, "")
                                         EXCEPT !.reported = STOPPED]
                    ELSE /\ calls' = [calls EXCEPT ![i] =
                                        [g EXCEPT !.phase =
                                            IF b.status = "await" THEN "hook" ELSE "resume"]]
                         /\ UNCHANGED lcRet

\* the shutdown handler settled: unless it reports STOPPED the shutdown
\* ends here; else the signal listeners are removed and disposeAll begins
shutdownHandlerSettles(i) ==
    /\ calls[i].kind = "lcShutdown"
    /\ calls[i].phase = "handler"
    /\ \E result \in ShutdownResults :
         IF result = STOPPED
         THEN /\ listeners' = removeListeners(listeners)
              /\ TeardownLoop(i, [calls[i] EXCEPT
                                     !.sorted = sortedDisposeSequence(disposeSequenceMap),
                                     !.snap = disposeSequenceMap],
                              Cont, log)
         ELSE /\ calls' = [calls EXCEPT ![i] = Idle]
              /\ lcRet' = [LcRet("dispose", TRUE, "", lifecycle, 0, "")
                              EXCEPT !.reported = result]
              /\ UNCHANGED <<singletonContainer, disposeSequenceMap, disposeSequence, log,
                             registry, healthHandlers, lifecycle, listeners>>
    /\ UNCHANGED <<ret, regs, nextId, ops, overlap, bucket, mapRet, setLog,
                   emitted, built, httpVars, disposeCalled, shutdownCalls>>

\* the promise of [Symbol.asyncDispose]() of the current member settled
teardownHookSettles(i) ==
    /\ calls[i].kind = "lcShutdown"
    /\ calls[i].phase = "hook"
    /\ LET f == calls[i]
       IN \E rejects \in MayFail(f.inst) :
            /\ log' = log \o AsyncEndEvents(f, rejects)
            /\ IF rejects
               THEN /\ UNCHANGED <<singletonContainer, disposeSequenceMap, disposeSequence>>
                    /\ calls' = [calls EXCEPT ![i] = Idle]
                    /\ lcRet' = [LcRet("dispose", FALSE, HookError, lifecycle, 0, "")
                                    EXCEPT !.reported = STOPPED]
               ELSE /\ Store(removeInstance(Cont, f.name))
                    /\ calls' = [calls EXCEPT ![i] = [f EXCEPT !.phase = "resume"]]
                    /\ UNCHANGED lcRet
    /\ UNCHANGED <<ret, regs, nextId, ops, overlap, mapVars, listeners, emitted, built, httpVars,
                   disposeCalled, lifecycle, healthHandlers, shutdownCalls>>

\* await this.disposeInstance(instanceName) returned: next iteration
teardownResume(i) ==
    /\ calls[i].kind = "lcShutdown"
    /\ calls[i].phase = "resume"
    /\ TeardownLoop(i, calls[i], Cont, log)
    /\ UNCHANGED <<ret, regs, nextId, ops, overlap, bucket, mapRet, setLog, listeners,
                   emitted, built, httpVars, disposeCalled, shutdownCalls>>

\* checkHealth whose readiness stage asks the probe in every status
HealthCode_ReadinessAsksProbe(stage, status, probe) ==
    CASE stage = "startup" -> IF status = UP THEN 200 ELSE 503
      [] stage = "readiness" -> IF probe = UP THEN 200 ELSE 503
      [] stage = "liveliness" -> IF probe = UP THEN 200 ELSE 503
      [] OTHER -> 500

\* checkHealth whose startup stage answers 200 whenever start() has not failed
HealthCode_StartupUnlessDown(stage, status, probe) ==
    CASE stage = "startup" -> IF status # DOWN THEN 200 ELSE 503
      [] stage = "readiness" ->
            IF status \in {UP, DOWN} THEN (IF probe = UP THEN 200 ELSE 503)
            ELSE IF status \in {STOPPING, STOPPED} THEN 503
            ELSE 500
      [] stage = "liveliness" -> IF probe = UP THEN 200 ELSE 503
      [] OTHER -> 500

\* the HTTP status checkHealth(stage) answers with, status being the
\* lifecycle status and probe what the stage's probe reports
HealthCode(stage, status, probe) ==
    CASE stage = "startup" -> IF status = UP THEN 200 ELSE 503
      [] stage = "readiness" ->
            IF status \in {UP, DOWN} THEN (IF probe = UP THEN 200 ELSE 503)
            ELSE IF status \in {STOPPING, STOPPED} THEN 503
            ELSE 500
      [] stage = "liveliness" -> IF probe = UP THEN 200 ELSE 503
      [] OTHER -> 500

\* a health query
checkHealth(stage, probe) ==
    /\ ops < MaxOps
    /\ ops' = ops + 1
    /\ lcRet' = [LcRet("checkHealth", TRUE, "", lifecycle,
                       HealthCode(stage, lifecycle, probe), stage)
                    EXCEPT !.probe = probe, !.at = ops + 1]
    /\ UNCHANGED <<contVars, mapVars, listeners, emitted, built, httpVars, disposeCalled,
                   lifecycle, healthHandlers, shutdownCalls>>

NextLifecycle ==
    \/ \E i \in Slots : lcStart(i)
    \/ \E i \in Slots : startupHandlerSettles(i)
    \/ \E i \in Slots : listenSettles(i)
    \/ \E i \in Slots, s \in exitSignals : lcExitSignal(i, s)
    \/ \E i \in Slots : lcAsyncDispose(i)
    \/ \E i \in Slots : shutdownHandlerSettles(i)
    \/ \E i \in Slots : teardownHookSettles(i)
    \/ \E i \in Slots : teardownResume(i)
    \/ \E s \in Stages, p \in ProbeResults : checkHealth(s, p)

SpecLifecycle == Init /\ [][NextLifecycle]_vars

\* ------------------------------------------------------------------------
\* Properties
\* ------------------------------------------------------------------------
\* the disposeAll calls in progress, and the one that returned last: where
\* their part of the log begins and the Sets they started from
Runs ==
    {[base |-> calls[i].base, snap |-> calls[i].snap] :
        i \in {j \in Slots : calls[j].kind = "disposeAll"}}
    \cup (IF AllIdle /\ ret.op = "disposeAll"
          THEN {[base |-> ret.base, snap |-> ret.snap]} ELSE {})

\* the pairs of hook events of two different names, in the order logged
EventPairs(base) ==
    {pq \in ((base + 1)..Len(log)) \X ((base + 1)..Len(log)) :
        /\ pq[1] < pq[2]
        /\ HookEvent(log[pq[1]]) /\ HookEvent(log[pq[2]])
        /\ log[pq[1]].name # log[pq[2]].name}

(* C1: disposeAll() disposes in strictly descending cohort order: when one
   resource is recorded in cohort c1 and another in c2 < c1, no hook of the
   second is invoked before both hooks of the first have completed; and the
   members of one cohort are disposed in the order they were registered. *)
C1_DescendingCohortOrder ==
    \A r \in Runs : \A pq \in EventPairs(r.base) :
        LET first == log[pq[1]]
            second == log[pq[2]]
        IN /\ regs[first.inst.id].seq >= regs[second.inst.id].seq
           /\ regs[first.inst.id].seq = regs[second.inst.id].seq
                 => regs[first.inst.id].at < regs[second.inst.id].at

(* C2: a resource created with explicit cohort 0 and then one created with
   explicit cohort 1, on an empty container: disposeAll() completes the hooks
   of the cohort-1 resource before it begins those of the cohort-0 one. *)
C2_ExplicitZeroCohortDisposedLast ==
    (/\ nextId = 2 /\ disposeSequence = 2
     /\ DOMAIN regs = {1, 2}
     /\ regs[1].seqArg = <<0>> /\ regs[2].seqArg = <<1>>
     /\ regs[1].name # regs[2].name)
    => \A r \in Runs : \A pq \in EventPairs(r.base) :
          ~(log[pq[1]].inst.id = 1 /\ log[pq[2]].inst.id = 2)

\* how often an event of kind k of instance id is in the log
Count(k, id) ==
    Cardinality({p \in 1..Len(log) : log[p].k = k /\ log[p].inst.id = id})

\* how many hook invocations of instance id of kind k failed
Failed(k, id) ==
    Cardinality({p \in 1..Len(log) :
                    log[p].k = k /\ log[p].inst.id = id /\ ~log[p].ok})

\* the instances disposeInstance has deleted from the container
RemovedEvents == {p \in 1..Len(log) : log[p].k = "removed"}

\* in every disposal attempt the synchronous hook runs first: the invocation
\* of the asynchronous hook directly follows a synchronous one that returned
SyncBeforeAsync ==
    \A q \in 1..Len(log) :
        (log[q].k = "asyncDispose" /\ HasSyncHook(log[q].inst)) =>
            /\ q > 1
            /\ log[q - 1].k = "dispose"
            /\ log[q - 1].inst = log[q].inst
            /\ log[q - 1].ok

(* C3 as stated: for every resource disposed through disposeInstance or
   disposeAll the synchronous hook is invoked before the asynchronous one,
   and each hook the instance exposes is invoked exactly once over the
   resource's lifetime in the container. *)
C3_EachHookExactlyOnce ==
    /\ SyncBeforeAsync
    /\ \A p \in RemovedEvents :
          LET inst == log[p].inst
          IN /\ Count("dispose", inst.id) = (IF HasSyncHook(inst) THEN 1 ELSE 0)
             /\ Count("asyncDispose", inst.id) = (IF HasAsyncHook(inst) THEN 1 ELSE 0)

(* C3 amended: in every disposal attempt the synchronous hook is invoked
   before the asynchronous one, and a disposed resource has had each hook it
   exposes invoked once by the attempt that removed it plus once by every
   earlier attempt that failed, so exactly once if no attempt failed. *)
C3_HooksOncePerAttempt ==
    /\ SyncBeforeAsync
    /\ \A p \in RemovedEvents :
          LET inst == log[p].inst
              failedSync == Failed("dispose", inst.id)
              failedAsync == Failed("asyncDisposeEnd", inst.id)
          IN /\ Count("dispose", inst.id) =
                   (IF HasSyncHook(inst) THEN 1 + failedSync + failedAsync ELSE 0)
             /\ Count("asyncDispose", inst.id) =
                   (IF HasAsyncHook(inst) THEN 1 + failedAsync ELSE 0)
             /\ Count("removed", inst.id) = 1

\* a resource with both hooks was disposed at the second attempt
C3_Witness ==
    \E p \in RemovedEvents :
        /\ HasSyncHook(log[p].inst) /\ HasAsyncHook(log[p].inst)
        /\ Failed("asyncDisposeEnd", log[p].inst.id) = 1
        /\ Count("dispose", log[p].inst.id) = 2

CreateOps == {"createInstance", "createInstanceWithoutConstructor",
              "createAsyncInstanceWithoutConstructor"}

\* this step is the return of a call (callers await every call)
Returns == AllIdle'

(* C4: a create call, through any of the three entry points, for a name that
   is registered returns the stored instance, invokes no constructor or
   factory and changes nothing, and a create call for an absent name returns
   the one object it built; so N calls in a row return the instance built by
   the first. *)
C4_CreateReturnsExisting ==
    [][(Returns /\ ret'.op \in CreateOps) =>
          LET n == ret'.name
          IN IF Has(singletonContainer, n)
             THEN /\ ret'.value = singletonContainer[n]
                  /\ nextId' = nextId
                  /\ UNCHANGED <<singletonContainer, disposeSequenceMap, disposeSequence>>
             ELSE /\ ret'.value = Get(singletonContainer', n)
                  /\ ret'.value.id = nextId'
                  /\ nextId' - nextId \in {0, 1}
      ]_vars

\* a second call of the asynchronous entry point got the stored instance
C4_Witness ==
    /\ AllIdle
    /\ ret.op = "createAsyncInstanceWithoutConstructor"
    /\ ret.hit
    /\ ret.value = singletonContainer[ret.name]
    /\ nextId = 1

\* name n was registered at some time
EverRegistered(n) == \E id \in DOMAIN regs : regs[id].name = n

\* the call that returned last is a disposal that completed and covers n
JustDisposed(n) ==
    /\ AllIdle
    /\ ret.ok
    /\ \/ ret.op = "disposeInstance" /\ ret.name = n
       \/ ret.op = "disposeAll"

(* C5: fetchInstance(name) returns undefined for a name never registered and
   right after disposeInstance(name) or disposeAll() completed; it invokes no
   factory; createInstance for a disposed name invokes the constructor again
   and returns an instance distinct from the disposed one. *)
C5_FetchAbsentAfterDispose ==
    [][\A n \in Names :
         /\ fetchInstance(n) =>
               /\ nextId' = nextId
               /\ ~EverRegistered(n) => ret'.value = Undefined
               /\ JustDisposed(n) => ret'.value = Undefined
         /\ (JustDisposed(n) /\ ret.op = "disposeInstance" /\ ret.hit
             /\ \E k \in Classes, s \in SeqArgs : createInstance(n, k, s)) =>
               /\ nextId' = nextId + 1
               /\ ret'.value # Undefined
               /\ ret'.value # ret.value
               /\ \A p \in 1..Len(log) : log[p].inst # ret'.value
      ]_vars

\* fetchInstance returned undefined for a name that had been disposed
C5_Witness ==
    /\ AllIdle
    /\ ret.op = "fetchInstance"
    /\ ret.value = Undefined
    /\ \E p \in RemovedEvents : log[p].name = ret.name

(* C6: when a release hook throws or rejects during disposeAll(), disposeAll
   rejects at once: the failed invocation is the last thing that call does,
   so it invokes no hook of a later member of the cohort or of a lower
   cohort. *)
C6_DisposeAllStopsAtFailure ==
    /\ \A i \in Slots : calls[i].kind = "disposeAll" =>
          \A p \in (calls[i].base + 1)..Len(log) : log[p].ok
    /\ (AllIdle /\ ret.op = "disposeAll") =>
          /\ \A p \in (ret.base + 1)..Len(log) : ~log[p].ok => p = Len(log)
          /\ ret.ok <=> \A p \in (ret.base + 1)..Len(log) : log[p].ok

\* disposeAll rejected and left a later member with hooks untouched
C6_Witness ==
    /\ AllIdle
    /\ ret.op = "disposeAll"
    /\ ~ret.ok
    /\ \E n \in DOMAIN singletonContainer :
          /\ n # ret.name
          /\ HasSyncHook(singletonContainer[n])
          /\ \A p \in (ret.base + 1)..Len(log) : log[p].name # n

(* C7: disposeInstance(name) for a name never registered, or a second time
   right after a completed disposeInstance(name), does not throw, invokes no
   release hook and leaves the container unchanged. *)
C7_DisposeIsIdempotent ==
    [][\A n \in Names :
         ((~EverRegistered(n) \/ (JustDisposed(n) /\ ret.op = "disposeInstance"))
          /\ \E i \in Slots : disposeInstance(i, n)) =>
             /\ ret'.op = "disposeInstance" /\ ret'.name = n /\ ret'.ok
             /\ log' = log
             /\ UNCHANGED <<singletonContainer, disposeSequenceMap, disposeSequence, calls>>
      ]_vars

\* a second disposeInstance of a disposed name returned
C7_Witness ==
    /\ AllIdle
    /\ ret.op = "disposeInstance"
    /\ ret.ok /\ ~ret.hit
    /\ \E p \in RemovedEvents : log[p].name = ret.name /\ HasSyncHook(log[p].inst)

(* C8: registerInstance with overrideExistingInstance = false for a name that
   is registered returns false and changes nothing; in every other case it
   returns true and fetchInstance(name) then returns the given instance. *)
C8_RegisterWithoutOverride ==
    [][/\ (Returns /\ ret'.op = "registerInstance") =>
             LET n == ret'.name
             IN IF ret'.override = FALSE /\ Has(singletonContainer, n)
                THEN /\ ret'.ok = FALSE
                     /\ UNCHANGED <<singletonContainer, disposeSequenceMap,
                                    disposeSequence>>
                ELSE /\ ret'.ok = TRUE
                     /\ ret'.value.id = nextId' /\ nextId' = nextId + 1
                     /\ Get(singletonContainer', n) = ret'.value
       /\ (AllIdle /\ ret.op = "registerInstance" /\ ret.ok
           /\ fetchInstance(ret.name)) => ret'.value = ret.value
      ]_vars

\* registerInstance returned false for a registered name
C8_Witness ==
    /\ AllIdle
    /\ ret.op = "registerInstance"
    /\ ~ret.ok
    /\ Has(singletonContainer, ret.name)
    /\ singletonContainer[ret.name] # ret.value

(* C9: when disposeAll() completes without an error and nothing was
   registered while it ran, the container is empty: no name in the name map
   and no entry in the cohort map. *)
C9_DisposeAllEmptiesContainer ==
    (AllIdle /\ ret.op = "disposeAll" /\ ret.ok) =>
        /\ DOMAIN singletonContainer = {}
        /\ DOMAIN disposeSequenceMap = {}

\* disposeAll completed after disposing two resources of one cohort
C9_Witness ==
    /\ AllIdle
    /\ ret.op = "disposeAll"
    /\ ret.ok
    /\ \E s \in DOMAIN ret.snap : SetSize(ret.snap[s]) = 2
    /\ Cardinality({p \in RemovedEvents : p > ret.base}) = 2

(* C10: resources registered without an explicit cohort get strictly
   increasing default cohort numbers in creation order, and disposeAll()
   disposes them in exact reverse creation order, also when registrations
   with explicit cohorts are mixed in between. *)
C10_DefaultsInReverseCreationOrder ==
    /\ \A x, y \in DOMAIN regs :
          (regs[x].seqArg = <<>> /\ regs[y].seqArg = <<>> /\ regs[x].at < regs[y].at)
              => regs[x].seq < regs[y].seq
    /\ \A r \in Runs : \A pq \in EventPairs(r.base) :
          LET first == regs[log[pq[1]].inst.id]
              second == regs[log[pq[2]].inst.id]
          IN (first.seqArg = <<>> /\ second.seqArg = <<>>) => first.at > second.at

\* ------------------------------------------------------------------------
\* Properties of SortedMap
\* ------------------------------------------------------------------------
\* the position of key k in a list of keys
Pos(keys, k) == CHOOSE i \in 1..Len(keys) : keys[i] = k

SetMax(S) == CHOOSE x \in S : \A y \in S : y <= x

(* C11: over set(key, value) calls with distinct keys and no explicit order,
   every call succeeds, the n-th entry is assigned order n (++mark), and
   sort() returns the entries in insertion order. *)
C11_AutoOrderKeepsInsertionOrder ==
    setLog.auto =>
        /\ ~setLog.autoThrew
        /\ MapKeys(registry.sortedKeys) = setLog.autoKeys
        /\ \A i \in 1..Len(setLog.autoKeys) :
              MapGet(registry.sortedKeys, setLog.autoKeys[i]) = i
        /\ (\A i \in 1..Len(registry.map) : registry.map[i].val # UndefinedValue)
              => MapKeys(sort(registry)) = setLog.autoKeys

(* C12: set(key, value, order) with an order that is NaN, infinite or not an
   integer throws, and leaves the values, the orders and the high-water mark
   as they were. *)
C12_InvalidOrderLeavesRegistryUnchanged ==
    (mapRet.op = "set" /\ mapRet.order \in InvalidOrders) =>
        /\ mapRet.threw
        /\ registry = mapRet.before

\* a set with an invalid order threw on a registry that holds an entry
C12_Witness ==
    /\ mapRet.op = "set"
    /\ mapRet.order \in InvalidOrders
    /\ mapRet.threw
    /\ Len(registry.map) > 0
    /\ registry.maxOrder > 0

\* the view is in ascending order of the stored orders, equal orders in the
\* order their keys were first inserted
AscendingStable(view, r) ==
    \A i, j \in 1..Len(view) :
        i < j =>
            LET oi == MapGet(r.sortedKeys, view[i].key)
                oj == MapGet(r.sortedKeys, view[j].key)
            IN \/ oi < oj
               \/ /\ oi = oj
                  /\ Pos(setLog.first, view[i].key) < Pos(setLog.first, view[j].key)

\* the view holds exactly the entries of r whose key is in keys
HoldsEntries(view, r, keys) ==
    /\ {view[i].key : i \in 1..Len(view)} = keys
    /\ Len(view) = Cardinality(keys)
    /\ \A i \in 1..Len(view) : view[i].val = MapGet(r.map, view[i].key)

(* C13 as stated: sort() returns a new collection that holds the registered
   entries in ascending order of their stored order, equal orders in the
   order their keys were first inserted, and does not modify the registry. *)
C13_SortReturnsAllEntriesAscending ==
    (mapRet.op = "sort" /\ mapRet.key = "") =>
        /\ HoldsEntries(mapRet.view, mapRet.before,
                        {mapRet.before.sortedKeys[i].key :
                            i \in 1..Len(mapRet.before.sortedKeys)})
        /\ AscendingStable(mapRet.view, mapRet.before)
        /\ registry = mapRet.before

(* C13 amended: sort() returns a new collection that holds the registered
   entries whose value is not undefined, in ascending order of their stored
   order, equal orders in the order their keys were first inserted, and does
   not modify the registry. *)
C13_SortReturnsDefinedEntriesAscending ==
    (mapRet.op = "sort" /\ mapRet.key = "") =>
        /\ HoldsEntries(mapRet.view, mapRet.before,
                        {mapRet.before.map[i].key :
                            i \in {j \in 1..Len(mapRet.before.map) :
                                      mapRet.before.map[j].val # UndefinedValue}})
        /\ AscendingStable(mapRet.view, mapRet.before)
        /\ registry = mapRet.before

\* sort() returned two entries of equal order, the later key first inserted
C13_Witness ==
    /\ mapRet.op = "sort" /\ mapRet.key = ""
    /\ MapKeys(mapRet.view) = <<"/b", "/a">>
    /\ MapGet(registry.sortedKeys, "/a") = MapGet(registry.sortedKeys, "/b")

(* C14: the high-water mark is the maximum of 0 and every order stored or
   assigned since the last clear, so a set with an explicit order below the
   mark leaves the mark as it is; clear() leaves no entries and mark 0. *)
C14_MarkIsMaxOfOrders ==
    /\ registry.maxOrder = SetMax({0} \cup setLog.stored)
    /\ mapRet.op = "clear" =>
          /\ registry.map = <<>>
          /\ registry.sortedKeys = <<>>
          /\ registry.maxOrder = 0

\* a set with an explicit order below the mark succeeded
C14_Witness ==
    /\ mapRet.op = "set"
    /\ ~mapRet.threw
    /\ mapRet.order.v < mapRet.before.maxOrder
    /\ registry.maxOrder = mapRet.before.maxOrder

(* C15: global handlers keep their explicit order and come before the
   handlers of a path: the nested registry's sort() is in ascending order of
   the handlers' explicit orders (H1 at 1 before H2 at 2), and the nested
   registry, stored under "*" at order 0, is the first entry of the parent's
   sort() whatever handlers with order >= 1 were registered before or after. *)
C15_GlobalHandlersFirst ==
    /\ (/\ MapHas(registry.map, GlobalKey)
        /\ \A i \in 1..Len(registry.sortedKeys) :
              registry.sortedKeys[i].key # GlobalKey => registry.sortedKeys[i].val >= 1)
       => /\ sort(registry) # <<>>
          /\ sort(registry)[1] = [key |-> GlobalKey, val |-> BucketRef]
    /\ \A o1, o2 \in {0, 1, 2} :
          LET k1 == PathOrderKey(Num(o1))
              k2 == PathOrderKey(Num(o2))
              view == MapKeys(sort(bucket))
          IN (o1 < o2 /\ MapHas(bucket.map, k1) /\ MapHas(bucket.map, k2))
                => Pos(view, k1) < Pos(view, k2)
    /\ (mapRet.op = "sort" /\ mapRet.key = GlobalKey) => mapRet.view = sort(bucket)

\* H2 was registered for "*" at order 2, then H1 at order 1, and the nested
\* registry's sort() returned H1, H2
C15_Witness ==
    /\ mapRet.op = "sort" /\ mapRet.key = GlobalKey
    /\ MapKeys(bucket.sortedKeys) = <<PathOrderKey(Num(2)), PathOrderKey(Num(1))>>
    /\ mapRet.view = <<[key |-> PathOrderKey(Num(1)), val |-> "H1"],
                       [key |-> PathOrderKey(Num(2)), val |-> "H2"]>>
    /\ MapHas(registry.map, GlobalKey)

\* ------------------------------------------------------------------------
\* Properties of ApplicationBuilder
\* ------------------------------------------------------------------------
PrimaryListener == "applicationExpress"

HealthListener == "healthExpress"

\* the disposeAll calls in progress
Teardowns == {i \in Slots : calls[i].kind = "disposeAll"}

(* C16: start() instantiates the health listener before the primary one:
   whenever the creation of a primary listener has begun, a health listener
   was created before it and has been registered in the container. *)
C16_HealthListenerFirst ==
    \A i \in Slots :
        (calls[i].kind = "start" /\ calls[i].name = PrimaryListener) =>
            \E id \in DOMAIN regs :
                /\ regs[id].name = HealthListener
                /\ id < calls[i].inst.id

(* C17: when start() completes successfully (and no disposal went on while
   it ran) both listeners are in the container under their well-known names,
   and each is the one instance created for the name since the name was last
   disposed: a start() that finds both names registered creates nothing. *)
C17_StartKeepsListeners ==
    (ret.op = "start" /\ ret.ok /\ Len(log) = ret.base /\ Teardowns = {}) =>
        \A n \in {PrimaryListener, HealthListener} :
            /\ Has(singletonContainer, n)
            /\ singletonContainer[n].cls = Listener
            /\ regs[singletonContainer[n].id].name = n
            /\ Cardinality({id \in DOMAIN regs : regs[id].name = n}) =
                  1 + Cardinality({p \in RemovedEvents : log[p].name = n})

\* start() was called again and returned, the two listeners still the first
C17_Witness ==
    /\ AllIdle
    /\ ret.op = "start" /\ ret.ok /\ ret.hit
    /\ nextId = 2
    /\ singletonContainer[PrimaryListener].id = 1
    /\ singletonContainer[HealthListener].id = 2

\* the deliveries of the signal of delivery p before p
Earlier(p) == {q \in 1..(p - 1) : emitted[q].signal = emitted[p].signal}

(* C18: each configured exit signal triggers the shutdown at most once: its
   first delivery invokes the shutdown routine (once, unless the builder's
   disposal had detached the listeners before), every later delivery of the
   same signal invokes nothing. *)
C18_SignalTriggersOnce ==
    \A p \in 1..Len(emitted) :
        emitted[p].invoked =
            (IF Earlier(p) = {} /\ ~emitted[p].detached THEN 1 ELSE 0)

\* a signal was delivered twice: the shutdown was invoked by the first only
C18_Witness ==
    /\ Len(emitted) = 2
    /\ emitted[1].signal = emitted[2].signal
    /\ emitted[1].invoked = 1
    /\ emitted[2].invoked = 0
    /\ ret.op = "disposeAll" /\ ret.via = "signal"

(* C19: an exit signal delivered while a signal-triggered shutdown is in
   progress is a no-op: it starts no second teardown and invokes no release
   hook. *)
C19_SignalDuringShutdownIsNoOp ==
    [][((\E i \in Teardowns : calls[i].via = "signal")
        /\ Len(emitted') = Len(emitted) + 1)
          => /\ calls' = calls
             /\ log' = log
             /\ UNCHANGED <<singletonContainer, disposeSequenceMap, disposeSequence>>
      ]_vars

(* C20: once a shutdown has completed, triggered by an exit signal or by the
   builder's disposal, every resource of the container has been disposed and
   none of the builder's exit-signal listeners is attached to the process. *)
C20_ShutdownDetachesAndDisposes ==
    (AllIdle /\ ret.op = "disposeAll" /\ ret.via \in {"signal", "asyncDispose"} /\ ret.ok) =>
        /\ DOMAIN singletonContainer = {}
        /\ DOMAIN disposeSequenceMap = {}
        /\ \A s \in exitSignals : listeners[s] = 0

(* C27: a create call, through any of the three entry points, that finds
   its name registered leaves the container as it was: the name -> instance
   map, every Set of the dispose-sequence map and the running dispose
   sequence are unchanged, no object is constructed and no hook is invoked,
   whatever constructor or factory, arguments and dispose sequence the call
   passed. *)
C27_CreateHitChangesNothing ==
    [][(Returns /\ ret'.op \in CreateOps /\ ret'.hit) =>
          /\ singletonContainer' = singletonContainer
          /\ disposeSequenceMap' = disposeSequenceMap
          /\ disposeSequence' = disposeSequence
          /\ nextId' = nextId
          /\ log' = log
          /\ regs' = regs]_vars

\* a create call found its name registered, the container holding two
\* names, one of them in the explicit dispose sequence 3
C27_Witness ==
    /\ AllIdle
    /\ ret.op = "createInstanceWithoutConstructor"
    /\ ret.hit
    /\ Has(singletonContainer, "a") /\ Has(singletonContainer, "b")
    /\ Has(disposeSequenceMap, 3)
    /\ disposeSequence = 2
    /\ nextId = 2

\* the dispose sequences whose Set holds name
SequencesOf(dsm, name) == {s \in DOMAIN dsm : SetHas(dsm[s], name)}

(* C30: after registerInstance(name, instance, disposeSequence, true) on a
   name that is registered in another dispose sequence, the name is a
   member of the Set of the dispose sequence of this registration and of no
   other Set, so that disposeAll() meets it in that sequence only. *)
C30_OverrideMovesToNewCohort ==
    [][(/\ Returns
        /\ ret'.op = "registerInstance"
        /\ ret'.ok /\ ret'.hit /\ ret'.override
        /\ SequencesOf(disposeSequenceMap, ret'.name) # {regs'[ret'.value.id].seq})
       => SequencesOf(disposeSequenceMap', ret'.name) = {regs'[ret'.value.id].seq}]_vars

(* C31: when a disposeAll() has completed without an error, every instance
   that was ever stored in the container and exposes release hooks has had
   them invoked, an instance replaced through registerInstance with
   overrideExistingInstance = true included. *)
C31_EveryStoredInstanceReleased ==
    (AllIdle /\ ret.op = "disposeAll" /\ ret.ok) =>
        \A id \in DOMAIN regs :
            regs[id].cls = "Disposable" =>
                /\ Count("dispose", id) >= 1
                /\ Count("asyncDispose", id) >= 1

\* the names that are members of some Set of the dispose-sequence map
Members(dsm) == {n \in Names : SequencesOf(dsm, n) # {}}

(* C32: whenever every create, registerInstance, disposeInstance and
   disposeAll call made has run to completion, the members of the Sets of
   the dispose-sequence map are exactly the keys of the name map, and no
   Set of the dispose-sequence map is empty. *)
C32_CohortsCoverNames ==
    AllIdle =>
        /\ Members(disposeSequenceMap) = DOMAIN singletonContainer
        /\ \A s \in DOMAIN disposeSequenceMap : SetSize(disposeSequenceMap[s]) > 0

\* one of two names of a dispose sequence was disposed, the other, also a
\* member of a second dispose sequence, is still there
C32_Witness ==
    /\ AllIdle
    /\ ret.op = "disposeInstance"
    /\ ret.ok /\ ret.hit
    /\ DOMAIN singletonContainer = {"b"}
    /\ Cardinality(SequencesOf(disposeSequenceMap, "b")) = 2
    /\ \E s \in DOMAIN disposeSequenceMap :
          SetSize(disposeSequenceMap[s]) < Len(disposeSequenceMap[s])

\* the step in which a disposeInstance call suspends at its await
DisposeInstanceSuspends ==
    \E i \in Slots : calls[i].kind = "idle" /\ calls'[i].kind = "disposeInstance"

\* the step in which a disposeInstance call rejects
DisposeInstanceRejects == Returns /\ ret'.op = "disposeInstance" /\ ~ret'.ok

(* C33: when the synchronous release hook of an instance throws, or the
   asynchronous one rejects, disposeInstance(name) rejects and the container
   is as it was before the call: no step of the call, up to the rejection,
   changes the name map, the dispose-sequence map or the counter, so the
   instance is still stored under the name and the name is still a member of
   its Set. *)
C33_FailedDisposeKeepsInstance ==
    [][/\ (DisposeInstanceSuspends \/ DisposeInstanceRejects) =>
             UNCHANGED <<singletonContainer, disposeSequenceMap, disposeSequence>>
       /\ DisposeInstanceRejects =>
             /\ Has(singletonContainer', ret'.name)
             /\ singletonContainer'[ret'.name] = ret'.value
             /\ SequencesOf(disposeSequenceMap', ret'.name) # {}]_vars

\* disposeInstance rejected after its await: the asynchronous hook rejected
\* and the instance is still stored
C33_Witness ==
    /\ AllIdle
    /\ ret.op = "disposeInstance"
    /\ ~ret.ok
    /\ Failed("asyncDisposeEnd", ret.value.id) = 1
    /\ Has(singletonContainer, ret.name)
    /\ singletonContainer[ret.name] = ret.value

\* C34: disposeInstance and disposeAll complete without error on every
\* registered value that exposes no release hook, a null or undefined value
\* included: a call fails only on a value that exposes a hook, and
\* disposeInstance of a hookless value removes its name
Hookless(inst) == ~HasSyncHook(inst) /\ ~HasAsyncHook(inst)

C34_HooklessReleaseCompletes ==
    [][(Returns /\ ret'.op \in {"disposeInstance", "disposeAll"}) =>
          /\ ~ret'.ok => ~Hookless(ret'.value)
          /\ (/\ ret'.op = "disposeInstance"
              /\ Has(singletonContainer, ret'.name)
              /\ Hookless(singletonContainer[ret'.name]))
                 => ~Has(singletonContainer', ret'.name)]_vars

\* the keys of a JS Map
KeySet(m) == {m[i].key : i \in 1..Len(m)}

\* no key has two entries
OneEntryEach(m) == \A i, j \in 1..Len(m) : m[i].key = m[j].key => i = j

\* the two maps of a SortedMap hold the same keys, each once, and the set
\* that returned last left its value and its order under its key
MapsAgree(r) ==
    /\ KeySet(r.map) = KeySet(r.sortedKeys)
    /\ OneEntryEach(r.map)
    /\ OneEntryEach(r.sortedKeys)

LastSetReplacedBoth ==
    (mapRet.op = "set" /\ ~mapRet.threw) =>
        /\ MapGet(registry.map, mapRet.key) = mapRet.value
        /\ MapGet(registry.sortedKeys, mapRet.key) = mapRet.order.v
        /\ MapHas(mapRet.before.map, mapRet.key) =>
              /\ Len(registry.map) = Len(mapRet.before.map)
              /\ Len(registry.sortedKeys) = Len(mapRet.before.sortedKeys)

\* the keys of r whose value is not undefined
DefinedKeys(r) == {k \in KeySet(r.map) : MapGet(r.map, k) # UndefinedValue}

(* C35 as stated: in every reachable state the value map and the order map
   of a SortedMap have the same key set, each key has one value and one
   order (a set on an existing key replaces both), and every key that was
   set and not cleared appears in sort(), a key whose value is undefined
   included. *)
C35_EveryKeyAppearsInSort ==
    /\ MapsAgree(registry) /\ MapsAgree(bucket)
    /\ LastSetReplacedBoth
    /\ KeySet(sort(registry)) = KeySet(registry.map)
    /\ KeySet(sort(bucket)) = KeySet(bucket.map)

(* C35 amended: the same, except that sort() holds exactly the keys that
   were set and not cleared and whose value is not undefined: a key whose
   value is undefined is skipped. *)
C35_EveryDefinedKeyAppearsInSort ==
    /\ MapsAgree(registry) /\ MapsAgree(bucket)
    /\ LastSetReplacedBoth
    /\ KeySet(sort(registry)) = DefinedKeys(registry)
    /\ KeySet(sort(bucket)) = DefinedKeys(bucket)

\* a set replaced the value and the order of an existing key of a registry
\* that holds a key whose value is undefined
C35_Witness ==
    /\ mapRet.op = "set" /\ ~mapRet.threw
    /\ MapHas(mapRet.before.map, mapRet.key)
    /\ MapGet(mapRet.before.map, mapRet.key) # mapRet.value
    /\ MapGet(mapRet.before.sortedKeys, mapRet.key) # mapRet.order.v
    /\ DefinedKeys(registry) # KeySet(registry.map)
    /\ DefinedKeys(registry) # {}

\* ------------------------------------------------------------------------
\* Properties of the builder's life cycle
\* ------------------------------------------------------------------------
\* the transitions of the lifecycle status
LifecycleTransitions ==
    {<<UNKNOWN, STARTING>>, <<STARTING, UP>>, <<STARTING, DOWN>>,
     <<UP, STOPPING>>, <<STOPPING, STOPPED>>}

(* C21: the lifecycle status only moves along UNKNOWN -> STARTING ->
   (UP | DOWN) and UP -> STOPPING -> STOPPED: no step makes another
   transition, DOWN is never followed by STOPPING, and no step invokes the
   shutdown handler while the status is DOWN. *)
C21_LifecycleTransitions ==
    [][/\ lifecycle' # lifecycle => <<lifecycle, lifecycle'>> \in LifecycleTransitions
       /\ lifecycle = DOWN => shutdownCalls' = shutdownCalls]_vars

\* the step in which a shutdown ends because its shutdown handler reported
\* a status other than STOPPED
ReportsNotStopped ==
    /\ \E i \in Slots : /\ calls[i].kind = "lcShutdown"
                        /\ calls[i].phase = "handler"
                        /\ calls'[i].kind = "idle"
    /\ lcRet'.op = "dispose"
    /\ lcRet'.reported # STOPPED

\* the signal listeners, the container, the release hooks invoked and the
\* two registries of handlers are what they were
NothingTornDown ==
    /\ listeners' = listeners
    /\ singletonContainer' = singletonContainer
    /\ disposeSequenceMap' = disposeSequenceMap
    /\ log' = log
    /\ registry' = registry
    /\ healthHandlers' = healthHandlers

(* C22: when the shutdown handler reports a status other than STOPPED, the
   builder is in STOPPING when the shutdown call ends and nothing is torn
   down: the signal listeners stay attached, no resource of the container
   is disposed and both registries of handlers keep their entries. *)
C22_NotStoppedKeepsEverything ==
    [][ReportsNotStopped => lifecycle' = STOPPING /\ NothingTornDown]_vars

\* the step is a health query of the stage
Queries(stage) ==
    /\ lcRet'.op = "checkHealth"
    /\ lcRet'.stage = stage
    /\ lcRet'.at = ops + 1
    /\ ops' = ops + 1

(* C23: the "startup" health query answers 200 if and only if the lifecycle
   status is UP when the query is made; in STARTING and in DOWN it answers
   503. *)
C23_StartupQuery ==
    [][Queries("startup") =>
          /\ lcRet'.code = 200 <=> lifecycle = UP
          /\ lifecycle \in {STARTING, DOWN} => lcRet'.code = 503]_vars

\* a startup query was answered 503 while start() was creating the primary
\* listener, the health listener being there
C23_Witness ==
    /\ lcRet.op = "checkHealth"
    /\ lcRet.stage = "startup"
    /\ lcRet.code = 503
    /\ lifecycle = STARTING
    /\ Has(singletonContainer, "healthExpress")

(* C24: while the lifecycle status is STOPPING or STOPPED the "readiness"
   health query answers 503, whatever the readiness probe reports. *)
C24_ReadinessDuringShutdown ==
    [][Queries("readiness") /\ lifecycle \in {STOPPING, STOPPED} => lcRet'.code = 503]_vars

\* a readiness query was answered 503 after a completed shutdown although
\* the probe reported UP
C24_Witness ==
    /\ lcRet.op = "checkHealth"
    /\ lcRet.stage = "readiness"
    /\ lcRet.probe = UP
    /\ lcRet.code = 503
    /\ lcRet.phase = STOPPED
    /\ lifecycle = STOPPED

\* the step in which start() rejects
StartRejects ==
    /\ \E i \in Slots : calls[i].kind = "lcStart" /\ calls'[i].kind = "idle"
    /\ lcRet'.op = "start"
    /\ ~lcRet'.ok

\* the error that made the startup fail: the one the startup handler threw,
\* or the one the factory of a listener rejected with
StartupError ==
    IF \E i \in Slots : calls[i].kind = "lcStart" /\ calls[i].phase = "handler"
    THEN Boom ELSE ListenError

\* the container holds a listener of the builder
ListenerPresent(sc) == \E j \in 1..Len(listenSequence) : Has(sc, listenSequence[j])

(* C25: when the startup fails with an exception, start() rejects with that
   same error, the lifecycle status is DOWN and the container holds no
   listener afterwards. *)
C25_FailedStartupLeavesNothing ==
    [][StartRejects => /\ lcRet'.error = StartupError
                       /\ lifecycle' = DOWN
                       /\ ~ListenerPresent(singletonContainer')]_vars

\* ------------------------------------------------------------------------
\* Properties of the BootstrapConstructor
\* ------------------------------------------------------------------------
\* what the caller gets when it invokes the callable itself with the list
Direct(callable, list) ==
    IF callable \in {"MyClass", "constructorFunction"}
    THEN [threw |-> FALSE,
          value |-> [cls |-> "MyClass",
                     name |-> IF list = <<>> THEN "undefined" ELSE Head(list)]]
    ELSE [threw |-> TRUE, value |-> ConstructionError]

\* the arguments a call passes: none when the array is omitted
Passed(args) == IF args = NoArguments THEN <<>> ELSE args.list

(* C26: each method of the BootstrapConstructor yields exactly what the
   caller's constructor or function yields for the arguments given, an
   omitted argument array standing for no arguments: the same value, or the
   same error thrown / rejected; and calls with the same arguments yield
   the same whatever calls were made before. *)
C26_BuildsWhatTheCallableBuilds ==
    /\ \A k \in 1..Len(built) :
          built[k].out = Direct(built[k].callable, Passed(built[k].args))
    /\ \A j, k \in 1..Len(built) :
          /\ built[j].callable = built[k].callable
          /\ Passed(built[j].args) = Passed(built[k].args)
          => built[j].out = built[k].out

\* a constructor that throws was called, then a function with an argument
C26_Witness ==
    /\ Len(built) = 2
    /\ built[1].out.threw
    /\ built[2].method = "createAsyncInstanceWithoutConstructor"
    /\ built[2].args = Arguments(<<"John">>)
    /\ built[2].out = [threw |-> FALSE, value |-> [cls |-> "MyClass", name |-> "John"]]

\* ------------------------------------------------------------------------
\* Properties of the container under overlapping calls
\* ------------------------------------------------------------------------
\* the createAsyncInstanceWithoutConstructor calls for name n that await
\* their factory
InFlight(cs, n) == {i \in Slots : cs[i].kind = "createAsync" /\ cs[i].name = n}

(* C28: the create entry points never replace a live instance, also when
   calls overlap: of the createAsyncInstanceWithoutConstructor calls for one
   name at most one has its factory invoked and awaited at a time, and the
   instance stored under a name is replaced by no step but a
   registerInstance call. *)
C28_CreateNeverReplaces ==
    [][\A n \in Names :
          /\ Cardinality(InFlight(calls', n)) <= 1
          /\ (Has(singletonContainer, n) /\ Has(singletonContainer', n)
              /\ singletonContainer'[n] # singletonContainer[n])
             => ret'.op = "registerInstance"]_vars

\* ------------------------------------------------------------------------
\* Properties of a shutdown that overlaps start()
\* ------------------------------------------------------------------------
\* the listeners registered so far
CreatedListeners ==
    {id \in DOMAIN regs : regs[id].name \in {startSequence[1], startSequence[2]}}

(* C29: nothing survives a shutdown that overlaps startup: when an exit
   signal triggered disposeAll while start() was awaiting the creation of a
   listener, no release hook failed, and both disposeAll and start() have
   finished (these two being the only calls made), the container holds no
   listener and every listener that was created had its release hook
   invoked. *)
C29_NothingSurvivesOverlappingShutdown ==
    (/\ ops = 2
     /\ Len(emitted) = 1
     /\ emitted[1].invoked > 0
     /\ emitted[1].starting
     /\ AllIdle
     /\ \A p \in DOMAIN log : log[p].ok)
    => /\ \A j \in 1..Len(startSequence) : ~Has(singletonContainer, startSequence[j])
       /\ \A id \in CreatedListeners :
             \E p \in DOMAIN log : log[p].k = "asyncDispose" /\ log[p].inst.id = id


\* ------------------------------------------------------------------------
\* Properties of the request helpers
\* ------------------------------------------------------------------------
\* the request the call that returned last made
LastRequest == httpRet.out.requests[1]

\* the UTF-8 size of the JSON text of a payload that has one: {"data":""} is
\* 11 bytes, an x one more, an e-acute two more; 0 is one byte
SerialisedBytes(body) ==
    IF body.t = "number" THEN 1
    ELSE 11 + (IF body.data = <<>> THEN 0
               ELSE body.data[1].n * (IF body.data[1].c = 233 THEN 2 ELSE 1))

PayloadLimitOf(payloadLimitArg) ==
    IF payloadLimitArg = <<>> THEN 1024 ELSE payloadLimitArg[1]

AboveLimit == SerialisedBytes(httpRet.body) > PayloadLimitOf(httpRet.limit)

Serialisable(body) == body.t \in {"object", "number"}

CarriesGzip(headers, key) == Has(headers, key) /\ headers[key] = "gzip"

(* C36: compressiblePost sends a gzip-compressed body and Content-Encoding:
   gzip exactly when the UTF-8 size of the JSON text of the payload is
   greater than payloadLimit (1024 when omitted); at exactly payloadLimit
   bytes it sends the JSON text itself; with limit 0 every payload is
   compressed. *)
C36_CompressesExactlyAboveLimit ==
    (httpRet.op = "compressiblePost" /\ httpRet.out.requests # <<>>) =>
        /\ (LastRequest.body.t = "Buffer") <=> AboveLimit
        /\ CarriesGzip(LastRequest.headers, "Content-Encoding") <=> AboveLimit
        /\ ~AboveLimit => LastRequest.body.t = "string"
        /\ httpRet.limit = <<0>> => LastRequest.body.t = "Buffer"

(* C37: compressiblePost leaves the caller's headers object as it was, and
   over a sequence of calls that pass the same headers object a request
   carries Content-Encoding: gzip iff its own body was compressed. *)
C37_HeadersObjectUntouched ==
    httpRet.op = "compressiblePost" =>
        /\ httpRet.reused => callerHeaders = httpRet.before
        /\ httpRet.out.requests # <<>> =>
              (CarriesGzip(LastRequest.headers, "Content-Encoding")
                  <=> LastRequest.body.t = "Buffer")

(* C38: a compressiblePost that succeeds called fetch exactly once and
   returns the response fetch resolved with; when serialising or compressing
   fails the call rejects and fetch is not called; a rejection of fetch is
   the rejection of the call. *)
C38_OneFetchPerCall ==
    httpRet.op = "compressiblePost" =>
        /\ ~httpRet.out.threw =>
              /\ Len(httpRet.out.requests) = 1
              /\ httpRet.out.response = httpRet.fetchResult.response
        /\ (\/ ~Serialisable(httpRet.body)
            \/ (AboveLimit /\ httpRet.gzipThrows)) =>
              /\ httpRet.out.threw
              /\ httpRet.out.requests = <<>>
        /\ (/\ Serialisable(httpRet.body)
            /\ ~(AboveLimit /\ httpRet.gzipThrows)
            /\ httpRet.fetchResult.rejects) =>
              /\ httpRet.out.threw
              /\ httpRet.out.error = httpRet.fetchResult.error
              /\ Len(httpRet.out.requests) = 1

\* gzipSync threw on a payload above the limit, after a call that succeeded
\* had left its header in the caller's headers object
C38_Witness ==
    /\ httpRet.op = "compressiblePost"
    /\ httpRet.n >= 2
    /\ AboveLimit /\ httpRet.gzipThrows
    /\ httpRet.out.threw /\ httpRet.out.error = "Compression failed"
    /\ httpRet.out.requests = <<>>

\* shouldCompress as the call has it: true when omitted and a body is given
ShouldCompress ==
    IF httpRet.compress = <<>> THEN httpRet.body # UndefinedStream
    ELSE httpRet.compress[1]

(* C39: compressibleRequestGZIP pipes the body through a gzip stream and
   sets content-encoding: gzip iff shouldCompress is true and a body stream
   is given; otherwise the body is passed as it is and no header is added;
   either way fetch is called once with the verb, the URL and the headers
   object given. *)
C39_CompressesOnRequest ==
    httpRet.op = "compressibleRequestGZIP" =>
        /\ Len(httpRet.out.requests) = 1
        /\ LastRequest.method = httpRet.method
        /\ LastRequest.url = TheUrl
        /\ LastRequest.headers = httpRet.out.headers
        /\ IF ShouldCompress /\ httpRet.body # UndefinedStream
           THEN /\ LastRequest.body = [t |-> "gzip", of |-> httpRet.body.of]
                /\ CarriesGzip(LastRequest.headers, "content-encoding")
                /\ \A h \in DOMAIN httpRet.before :
                      h # "content-encoding" => LastRequest.headers[h] = httpRet.before[h]
           ELSE /\ LastRequest.body = httpRet.body
                /\ LastRequest.headers = httpRet.before

\* a body stream was given with shouldCompress false: it went out as it was,
\* under headers that carry no content-encoding
C39_Witness ==
    /\ httpRet.op = "compressibleRequestGZIP"
    /\ httpRet.compress = <<FALSE>>
    /\ httpRet.body # UndefinedStream
    /\ Len(httpRet.out.requests) = 1
    /\ LastRequest.body = httpRet.body
    /\ ~Has(LastRequest.headers, "content-encoding")

====
